---- MODULE Spec2Model ----
(***************************************************************************)
(* depfinder: the process-forest aggregator ProcessTrace                   *)
(* (src/process_trace.py).  from_events consumes a stream of trace events  *)
(* (pid, event, args) and builds a tree of ProcessTrace records;           *)
(* collapsed() folds a subtree's file activity into one record.            *)
(*                                                                         *)
(* The event stream is the input: it is drawn one event at a time from the *)
(* bounded alphabet Events.  A stream has a weight, one per event and one  *)
(* more per read, write, check or chdir event, of at most MaxWeight: long  *)
(* streams of process events, shorter ones of path events.  from_events    *)
(* only compares pids for equality, so the pids of a stream are named      *)
(* 1, 2, ... in the order in which the stream first mentions them.         *)
(***************************************************************************)
EXTENDS Integers, Sequences, FiniteSets, TLC

\* ------------------------------------------------------------------ bounds
MaxWeight == 6
MaxPid == 2
MaxLines == 3
MaxOps == 6

Pids == 1..MaxPid

\* The pids the lines of a trace name.
ParserPids == {1, 2}

\* ------------------------------------------------------------ option values
\* Python's None is the empty tuple, a present value x is <<x>>.
None == <<>>
Some(x) == <<x>>

\* ------------------------------------------------------------------- paths
\* A path string is [abs, parts]: "/a/b" is [TRUE, <<"a","b">>], "./f" is
\* [FALSE, <<".","f">>].  A pathlib.Path is the same record with no "."
\* component.
Str(abs, parts) == [abs |-> abs, parts |-> parts]

NotDot(c) == c # "."

\* pathlib.Path(s): "." components are dropped, ".." are kept.
Path(s) == [abs |-> s.abs, parts |-> SelectSeq(s.parts, NotDot)]

\* str(path): a str is itself; the empty relative Path prints as ".".
str(path) == IF path = Str(FALSE, <<>>) THEN Str(FALSE, <<".">>) ELSE path

\* self.cwd / path
Join(cwd, path) ==
    LET q == Path(path)
    IN  IF q.abs THEN q ELSE [abs |-> cwd.abs, parts |-> cwd.parts \o q.parts]

\* ------------------------------------------------------------ the alphabet
RootCwd == Str(TRUE, <<"w">>)

ReadStrs == {Str(FALSE, <<"f">>), Str(TRUE, <<"f">>)}
WriteStrs == {Str(FALSE, <<".", "f">>)}
CheckStrs == {Str(FALSE, <<"f">>)}
ChdirStrs == {Str(FALSE, <<"d">>), Str(TRUE, <<"r">>)}
ExecStrs == {Str(FALSE, <<"x">>)}
\* from_events stores an exit code and never reads it: one code stands for
\* all of them.
ExitCodes == {1}

PathKinds == {"read", "write", "check", "chdir"}

NoStr == Str(FALSE, <<>>)

Ev(pid, event, path, exists, n, argv, env) ==
    [pid |-> pid, event |-> event, path |-> path, exists |-> exists,
     n |-> n, argv |-> argv, env |-> env]

Events ==
    UNION {
        {Ev(pid, "exec", s, FALSE, 0, <<"x">>, <<"K=v">>) : s \in ExecStrs}
        \cup {Ev(pid, "exit", NoStr, FALSE, c, <<>>, <<>>) : c \in ExitCodes}
        \cup {Ev(pid, "read", s, FALSE, 0, <<>>, <<>>) : s \in ReadStrs}
        \cup {Ev(pid, "write", s, FALSE, 0, <<>>, <<>>) : s \in WriteStrs}
        \cup {Ev(pid, "check", s, b, 0, <<>>, <<>>) :
                  s \in CheckStrs, b \in BOOLEAN}
        \cup {Ev(pid, "fork", NoStr, FALSE, c, <<>>, <<>>) : c \in Pids \ {pid}}
        \cup {Ev(pid, "chdir", s, FALSE, 0, <<>>, <<>>) : s \in ChdirStrs}
        : pid \in Pids }


\* ----------------------------------------------------------------- records
\* ProcessTrace.__init__ called with pid, ppid and cwd only.
NewProcessTrace(pid, ppid, cwd) ==
    [pid |-> pid, ppid |-> ppid, cwd |-> Path(cwd),
     executable |-> None, argv |-> None, env |-> None,
     paths_read |-> {}, paths_written |-> {}, paths_checked |-> {},
     exit_code |-> None, children |-> <<>>]

\* A handler's outcome: the record as the handler leaves it, whether it
\* returned (ok) or raised, and the line that raised.
Ok(p) == [ok |-> TRUE, p |-> p, line |-> 0]
Raise(p, line) == [ok |-> FALSE, p |-> p, line |-> line]

\* ------------------------------------------------- trace event handlers
\* exec that forgets argv.
exec_DropsArgv(self, executable, argv, env) ==
    IF self.executable # None THEN Raise(self, 126)
    ELSE Ok([self EXCEPT !.executable = Some(Join(self.cwd, executable)),
                         !.env = Some(env)])

\* exec without the assertions of lines 126-128: a later exec overwrites.
exec_Overwrites(self, executable, argv, env) ==
    Ok([self EXCEPT !.executable = Some(Join(self.cwd, executable)),
                    !.argv = Some(argv),
                    !.env = Some(env)])

exec(self, executable, argv, env) ==
    IF self.executable # None THEN Raise(self, 126)
    ELSE IF self.argv # None THEN Raise(self, 127)
    ELSE IF self.env # None THEN Raise(self, 128)
    ELSE Ok([self EXCEPT !.executable = Some(Join(self.cwd, executable)),
                         !.argv = Some(argv),
                         !.env = Some(env)])

\* read that keeps one entry for each resolved path.
read_KeyedByResolved(self, path) ==
    Ok([self EXCEPT
           !.paths_read =
               {en \in @ : en[2] # Join(self.cwd, path)}
                   \cup {<<str(path), Join(self.cwd, path)>>}])

read(self, path) ==
    Ok([self EXCEPT !.paths_read = @ \cup {<<str(path), Join(self.cwd, path)>>}])

write(self, path) ==
    Ok([self EXCEPT
           !.paths_written = @ \cup {<<str(path), Join(self.cwd, path)>>}])

\* check that takes an exec to have come first.
check_RequiresExec(self, path, exists) ==
    IF self.executable = None THEN Raise(self, 140)
    ELSE Ok([self EXCEPT
                !.paths_checked =
                    @ \cup {<<str(path), Join(self.cwd, path), exists>>}])

check(self, path, exists) ==
    Ok([self EXCEPT
           !.paths_checked = @ \cup {<<str(path), Join(self.cwd, path), exists>>}])

\* exit that does not record the exit code.
exit_KeepsNone(self, exit_code) == Ok(self)

exit(self, exit_code) ==
    IF self.exit_code # None THEN Raise(self, 143)
    ELSE Ok([self EXCEPT !.exit_code = Some(exit_code)])

fork(self, child_pid) == Ok(self)

chdir(self, path) == Ok([self EXCEPT !.cwd = Path(path)])

\* getattr(p, event)(*args)
Handle(p, e) ==
    CASE e.event = "exec" -> exec(p, e.path, e.argv, e.env)
      [] e.event = "read" -> read(p, e.path)
      [] e.event = "write" -> write(p, e.path)
      [] e.event = "check" -> check(p, e.path, e.exists)
      [] e.event = "exit" -> exit(p, e.n)
      [] e.event = "fork" -> fork(p, e.n)
      [] e.event = "chdir" -> chdir(p, e.path)

\* A child made without cwd=p.cwd: __init__ falls back to Path.cwd().
ForkChild_DefaultCwd(p, cpid) == NewProcessTrace(Some(cpid), p.pid, RootCwd)

\* Line 35: the record made for a forked child.
ForkChild(p, cpid) == NewProcessTrace(Some(cpid), p.pid, p.cwd)

\* The child is not appended to its parent's children.
AppendChild_Skipped(p, ci) == p

\* Line 38: p.children.append(c), c being records[ci].
AppendChild(p, ci) == [p EXCEPT !.children = Append(@, ci)]

\* Lines 43-44: for event, args in pending[cpid]: getattr(c, event)(*args).
\* The result carries the record as it is when the loop ends or raises, and
\* n, the number of events that were handled without raising.
RECURSIVE DrainPending(_, _)
DrainPending(c, evs) ==
    IF evs = <<>> THEN [ok |-> TRUE, p |-> c, line |-> 0, n |-> 0]
    ELSE LET r == Handle(c, Head(evs))
         IN  IF r.ok
             THEN LET d == DrainPending(r.p, Tail(evs))
                  IN  [d EXCEPT !.n = @ + 1]
             ELSE [ok |-> FALSE, p |-> r.p, line |-> r.line, n |-> 0]

\* The kind the loop variable `event` holds at line 46: the drain loop of
\* lines 43-44 rebinds `event` to the kind of the last buffered event.
EventAtLine46(e, pend) ==
    IF e.event = "fork" /\ pend[e.n] # <<>>
    THEN pend[e.n][Len(pend[e.n])].event
    ELSE e.event

\* ----------------------------------------------------------- collapsed()
\* ProcessTrace.__init__ as collapsed() calls it (lines 102-109 and 56-66):
\* the executable is joined against the new record's cwd.
ProcessTraceInit(pid, ppid, cwd, executable, argv, env, exit_code) ==
    [NewProcessTrace(pid, ppid, cwd) EXCEPT
        !.executable = IF executable = None THEN None
                       ELSE Some(Join(Path(cwd), executable[1])),
        !.argv = argv,
        !.env = env,
        !.exit_code = exit_code]

\* Line 116: ret.read(p.executable); `self.cwd / None` raises TypeError.
ReadExecutable(acc, p) ==
    IF p.executable = None THEN Raise(acc, 134)
    ELSE read(acc, p.executable[1])

\* Lines 111-118: copy_activities(p) for p = recs[j], acc being `ret`.
RECURSIVE copy_activities(_, _, _)
RECURSIVE copy_children(_, _, _)
copy_activities(recs, acc, j) ==
    IF ~acc.ok THEN acc
    ELSE LET p == recs[j]
             merged == [acc.p EXCEPT
                           !.paths_read = @ \cup p.paths_read,
                           !.paths_written = @ \cup p.paths_written,
                           !.paths_checked = @ \cup p.paths_checked]
             r == ReadExecutable(merged, p)
         IN  IF r.ok THEN copy_children(recs, r, p.children) ELSE r

copy_children(recs, acc, kids) ==
    IF kids = <<>> THEN acc
    ELSE copy_children(recs, copy_activities(recs, acc, Head(kids)), Tail(kids))

\* Lines 96-121.
collapsed(recs, i) ==
    LET self == recs[i]
        ret0 == ProcessTraceInit(self.pid, self.ppid, self.cwd, self.executable,
                                 self.argv, self.env, self.exit_code)
    IN  copy_activities(recs, Ok(ret0), i)

\* ------------------------------------------------------------------- state
VARIABLES
    pc,        \* "start", "loop", "returned", "failed"
    error,     \* the exception from_events raised and the line raising it
    records,   \* every ProcessTrace created, in creation order; root is 1
    running,   \* pid -> index into records, 0 when pid is not running
    pending,   \* pid -> the events buffered for it
    nevents,   \* number of events read from the stream
    weight,    \* weight of the events read from the stream
    npids,     \* number of distinct pids the stream has mentioned
    ret,       \* the last collapsed() call: receiver and outcome
    life,      \* history: what the stream has said about each pid so far
    raced,     \* history: <<parent pid, child pid>> of forks seen after
               \*          events of the child
    drained,   \* history: records created with buffered events drained
    execd      \* history: records an exec event was applied to

vars == <<pc, error, records, running, pending, nevents, weight, npids, ret,
          life, raced, drained, execd>>

prog == <<pc, error, records, running, pending>>
hist == <<life, raced, drained, execd>>

NoError == [type |-> "", line |-> 0]
AssertionError(line) == [type |-> "AssertionError", line |-> line]
StopIteration(line) == [type |-> "StopIteration", line |-> line]

NoRet == [of |-> 0, ok |-> TRUE, line |-> 0,
          p |-> NewProcessTrace(None, None, RootCwd)]

\* ---------------------------------------------------------- parser state
VARIABLES
    ppc,       \* "parsing", "done" (input exhausted), "failed"
    perror,    \* the line StraceParseError carries, as Some(line)
    ppending,  \* self.pending: pid -> <<syscall name, partial args>>
    out,       \* the events __call__ has yielded
    nlines,    \* number of lines read
    lastline,  \* history: the last line read, as Some(line)
    origin     \* history: pid -> Some(<<sc, k>>) when the last line of that
               \*          pid was the first half of sc cut at k and was
               \*          accepted

pvars == <<ppc, perror, ppending, out, nlines, lastline, origin>>

ParserInit ==
    /\ ppc = "parsing"
    /\ perror = None
    /\ ppending = <<>>
    /\ out = <<>>
    /\ nlines = 0
    /\ lastline = None
    /\ origin = [q \in ParserPids |-> None]

\* ------------------------------------------------------------ json state
\* Two forests under construction, to be serialized by json().  A Python
\* set iterates in an order that depends on how it was filled: order[i]
\* lists each path set of recs[i] in the order of insertion.
VARIABLES
    jobj,      \* forest 1 and forest 2: [recs, order]
    jn         \* number of events applied to the two forests

jvars == <<jobj, jn>>

NoOrder == [paths_read |-> <<>>, paths_written |-> <<>>, paths_checked |-> <<>>]

JsonInit ==
    /\ jobj = [w \in {1, 2} |->
                  [recs |-> <<NewProcessTrace(Some(1), None, RootCwd)>>,
                   order |-> <<NoOrder>>]]
    /\ jn = 0

\* --------------------------------------------------------- two parser runs
\* A second StraceOutputParser reading the lines a first one has read.
VARIABLES
    input,     \* the lines the first parser has read
    run1,      \* what the first parser did, as Some(record), once it ended
    run        \* 1 while the first parser reads, 2 for the second

tvars == <<input, run1, run>>

TwiceInit ==
    /\ input = <<>>
    /\ run1 = None
    /\ run = 1

\* ------------------------------------------------------------- run_trace
\* The generator run_trace (the driver), the strace child it starts (the
\* tracer) and the FIFO between them.
VARIABLES
    dpc,       \* where the driver stands: "new", "spawn", "open", "read",
               \* "yield", "wait", "closed"
    tracer,    \* "none", "opening" (started, FIFO not yet open), "writing",
               \* "gone"
    fifo,      \* whether the FIFO exists in its temporary directory
    fopen,     \* whether the driver holds the FIFO open for reading
    buffered,  \* the lines written to the FIFO and not yet read, each as
               \* what the parser does with it
    written,   \* number of lines the tracer has written
    abandoned  \* history: the consumer closed the iterator at a yield

dvars == <<dpc, tracer, fifo, fopen, buffered, written, abandoned>>

TraceInit ==
    /\ dpc = "new"
    /\ tracer = "none"
    /\ fifo = FALSE
    /\ fopen = FALSE
    /\ buffered = <<>>
    /\ written = 0
    /\ abandoned = FALSE

\* ----------------------------------------------------- one _parse_args call
VARIABLES
    parsed     \* the last call of _parse_args: what kind of input it was
               \* given, the schema, the input and the outcome

avars == <<parsed>>

ArgsInit ==
    parsed = [kind |-> "none", spec |-> <<>>, args |-> <<>>,
              r |-> [ok |-> TRUE, val |-> <<>>, rest |-> <<>>]]

\* The variables outside ProcessTrace.from_events and StraceOutputParser.
xvars == <<jvars, tvars, dvars, avars>>


\* -------------------------------------------------- history of the stream
\* life[q].st: "none"      no event of q and no fork of q seen
\*             "early"     events of q seen, its fork not yet
\*             "earlydead" as early, and q's exit seen
\*             "live"      q is the root or was forked, no exit seen
\*             "dead"      q was live and its exit was seen
\*             "bad"       the stream is not a trace of q's life: an event
\*                         after q's exit, a second exec, a second fork of
\*                         q, a fork by a process not yet forked, or a root
\*                         starting with exit or fork
\* life[q].x: an exec of q was seen
OwnLife(l, e, first) ==
    LET s == l[e.pid]
        st == IF first
              THEN IF e.event \in {"exit", "fork"} THEN "bad" ELSE "live"
              ELSE CASE s.st \in {"none", "early"} ->
                            IF e.event = "fork" THEN "bad"
                            ELSE IF e.event = "exit" THEN "earlydead"
                            ELSE "early"
                     [] s.st = "live" ->
                            IF e.event = "exit" THEN "dead"
                            ELSE IF e.event = "fork" /\ e.n = e.pid THEN "bad"
                            ELSE "live"
                     [] OTHER -> "bad"
    IN  [st |-> IF e.event = "exec" /\ s.x THEN "bad" ELSE st,
         x |-> s.x \/ e.event = "exec"]

ForkedLife(s) ==
    [s EXCEPT !.st = CASE s.st = "none" -> "live"
                       [] s.st = "early" -> "live"
                       [] s.st = "earlydead" -> "dead"
                       [] OTHER -> "bad"]

IsLiveFork(l, e, first) ==
    ~first /\ e.event = "fork" /\ l[e.pid].st = "live" /\ e.n # e.pid

LifeAfter(l, e, first) ==
    LET l1 == [l EXCEPT ![e.pid] = OwnLife(l, e, first)]
    IN  IF IsLiveFork(l, e, first)
        THEN [l1 EXCEPT ![e.n] = ForkedLife(l[e.n])]
        ELSE l1

RacedAfter(l, rc, e, first) ==
    IF IsLiveFork(l, e, first) /\ l[e.n].st \in {"early", "earlydead"}
    THEN rc \cup {<<e.pid, e.n>>}
    ELSE rc

StreamStep(e, first) ==
    /\ life' = LifeAfter(life, e, first)
    /\ raced' = RacedAfter(life, raced, e, first)

Max(a, b) == IF a >= b THEN a ELSE b

\* The pids mentioned once e is read.
PidsAfter(n, e) ==
    IF e.event = "fork" THEN Max(Max(n, e.pid), e.n) ELSE Max(n, e.pid)

Weight(e) == IF e.event \in PathKinds THEN 2 ELSE 1

\* e is the next event of the input stream: within the budget, and a pid it
\* is the first to mention is the least unused one.
Budget(e) ==
    /\ weight + Weight(e) <= MaxWeight
    /\ e.pid <= npids + 1
    /\ e.event = "fork" => e.n <= Max(npids, e.pid) + 1
    /\ nevents' = nevents + 1
    /\ weight' = weight + Weight(e)
    /\ npids' = PidsAfter(npids, e)

\* ----------------------------------------------------------------- actions
Init ==
    /\ pc = "start"
    /\ error = NoError
    /\ records = <<>>
    /\ running = [q \in Pids |-> 0]
    /\ pending = [q \in Pids |-> <<>>]
    /\ nevents = 0
    /\ weight = 0
    /\ npids = 0
    /\ ret = NoRet
    /\ life = [q \in Pids |-> [st |-> "none", x |-> FALSE]]
    /\ raced = {}
    /\ drained = {}
    /\ execd = {}
    /\ ParserInit
    /\ JsonInit
    /\ TwiceInit
    /\ TraceInit
    /\ ArgsInit

\* Line 16: next(events) on an exhausted iterator.
EmptyStream ==
    /\ pc = "start"
    /\ pc' = "failed"
    /\ error' = StopIteration(16)
    /\ UNCHANGED <<records, running, pending, nevents, weight, npids, ret>>
    /\ UNCHANGED hist
    /\ UNCHANGED <<pvars, xvars>>

\* Lines 16-21: the first event makes the root and is handled by it.
FirstEvent(e) ==
    /\ pc = "start"
    /\ Budget(e)
    /\ StreamStep(e, TRUE)
    /\ LET root == NewProcessTrace(Some(e.pid), None, RootCwd)
           r == Handle(root, e)
       IN  /\ records' = <<r.p>>
           /\ execd' = IF e.event = "exec" /\ r.ok THEN {1} ELSE {}
           /\ IF r.ok
              THEN /\ pc' = "loop"
                   /\ error' = NoError
                   /\ running' = [running EXCEPT ![e.pid] = 1]
              ELSE /\ pc' = "failed"
                   /\ error' = AssertionError(r.line)
                   /\ UNCHANGED running
    /\ UNCHANGED <<pending, ret, drained>>
    /\ UNCHANGED <<pvars, xvars>>

\* Records whose cwd is one shared object that chdir changes in place.
Store_SharedCwd(recs, i, p) ==
    [k \in DOMAIN recs |->
        IF k = i THEN p
        ELSE IF recs[k].cwd = recs[i].cwd THEN [recs[k] EXCEPT !.cwd = p.cwd]
        ELSE recs[k]]

\* Lines 30-31: p = running[pid] is the one object the handler changes.
Store(recs, i, p) == [recs EXCEPT ![i] = p]

\* Lines 24-28: an event of a pid that is not running is buffered.
BufferEvent(e) ==
    /\ pc = "loop"
    /\ running[e.pid] = 0
    /\ Budget(e)
    /\ StreamStep(e, FALSE)
    /\ pending' = [pending EXCEPT ![e.pid] = Append(@, e)]
    /\ UNCHANGED <<pc, error, records, running, ret, drained, execd>>
    /\ UNCHANGED <<pvars, xvars>>

\* Lines 29-47: an event of a running pid.
DispatchEvent(e) ==
    /\ pc = "loop"
    /\ running[e.pid] # 0
    /\ Budget(e)
    /\ StreamStep(e, FALSE)
    /\ LET i == running[e.pid]
           r == Handle(records[i], e)
           ci == Len(records) + 1
           d == DrainPending(ForkChild(r.p, e.n), pending[e.n])
           forked == Append([records EXCEPT ![i] = AppendChild(r.p, ci)], d.p)
           drainedExec == \E k \in 1..d.n : pending[e.n][k].event = "exec"
       IN  IF ~r.ok
           THEN \* the handler's assertion failed
                /\ pc' = "failed"
                /\ error' = AssertionError(r.line)
                /\ UNCHANGED <<records, running, pending, drained, execd>>
           ELSE IF e.event # "fork"
           THEN /\ records' = Store(records, i, r.p)
                /\ running' = IF EventAtLine46(e, pending) = "exit"
                              THEN [running EXCEPT ![e.pid] = 0]
                              ELSE running
                /\ execd' = IF e.event = "exec" THEN execd \cup {i} ELSE execd
                /\ UNCHANGED <<pc, error, pending, drained>>
           ELSE IF running[e.n] # 0
           THEN \* line 36: assert cpid not in running
                /\ pc' = "failed"
                /\ error' = AssertionError(36)
                /\ UNCHANGED <<records, running, pending, drained, execd>>
           ELSE /\ records' = forked
                /\ drained' = IF pending[e.n] # <<>> THEN drained \cup {ci}
                              ELSE drained
                /\ execd' = IF drainedExec THEN execd \cup {ci} ELSE execd
                /\ IF ~d.ok
                   THEN \* a buffered event's assertion failed
                        /\ pc' = "failed"
                        /\ error' = AssertionError(d.line)
                        /\ running' = [running EXCEPT ![e.n] = ci]
                        /\ UNCHANGED pending
                   ELSE /\ UNCHANGED <<pc, error>>
                        /\ pending' = [pending EXCEPT ![e.n] = <<>>]
                        /\ running' =
                              IF EventAtLine46(e, pending) = "exit"
                              THEN [running EXCEPT ![e.n] = ci, ![e.pid] = 0]
                              ELSE [running EXCEPT ![e.n] = ci]
    /\ UNCHANGED ret
    /\ UNCHANGED <<pvars, xvars>>

\* End of stream without line 50, the check of pending.
EndOfStream_IgnoresPending ==
    /\ pc = "loop"
    /\ IF \E q \in Pids : running[q] # 0
       THEN pc' = "failed" /\ error' = AssertionError(49)
       ELSE pc' = "returned" /\ error' = NoError
    /\ UNCHANGED <<records, running, pending, nevents, weight, npids, ret>>
    /\ UNCHANGED hist
    /\ UNCHANGED <<pvars, xvars>>

\* Lines 49-51: the stream has ended.
EndOfStream ==
    /\ pc = "loop"
    /\ IF \E q \in Pids : running[q] # 0
       THEN pc' = "failed" /\ error' = AssertionError(49)
       ELSE IF \E q \in Pids : pending[q] # <<>>
       THEN pc' = "failed" /\ error' = AssertionError(50)
       ELSE pc' = "returned" /\ error' = NoError
    /\ UNCHANGED <<records, running, pending, nevents, weight, npids, ret>>
    /\ UNCHANGED hist
    /\ UNCHANGED <<pvars, xvars>>

\* collapsed() called on a record of the returned forest.
Collapse(i) ==
    /\ pc = "returned"
    /\ LET c == collapsed(records, i)
       IN  ret' = [of |-> i, ok |-> c.ok, line |-> c.line, p |-> c.p]
    /\ UNCHANGED <<pc, error, records, running, pending, nevents, weight, npids>>
    /\ UNCHANGED hist
    /\ UNCHANGED <<pvars, xvars>>

Next ==
    \/ EmptyStream
    \/ \E e \in Events : FirstEvent(e)
    \/ \E e \in Events : BufferEvent(e)
    \/ \E e \in Events : DispatchEvent(e)
    \/ EndOfStream
    \/ \E i \in 1..Len(records) : Collapse(i)

Spec == Init /\ [][Next]_<<vars, pvars, xvars>>

\* ------------------------------------------- one process and its directory
\* Events of one process whose paths name the same file in several ways:
\* "f", "./f" and "/w/f" are one file while the cwd is /w.
SameFile ==
    {Str(FALSE, <<"f">>), Str(FALSE, <<".", "f">>), Str(TRUE, <<"w", "f">>)}

PathEvents ==
    {Ev(1, "read", s, FALSE, 0, <<>>, <<>>) : s \in SameFile}
    \cup {Ev(1, "write", s, FALSE, 0, <<>>, <<>>) : s \in SameFile}
    \cup {Ev(1, "check", s, b, 0, <<>>, <<>>) : s \in SameFile, b \in BOOLEAN}
    \cup {Ev(1, "chdir", s, FALSE, 0, <<>>, <<>>) :
              s \in {Str(FALSE, <<"d">>), Str(TRUE, <<"r">>), RootCwd}}
    \cup {Ev(1, "exit", NoStr, FALSE, 1, <<>>, <<>>)}

PathNext ==
    \/ \E e \in PathEvents : FirstEvent(e)
    \/ \E e \in PathEvents : DispatchEvent(e)
    \/ EndOfStream

PathSpec == Init /\ [][PathNext]_<<vars, pvars, xvars>>


\* ======================================================================
\* StraceOutputParser (src/strace_helper.py)
\* ======================================================================
\* Text is a sequence of tokens.  A token is one character, except that a
\* run of letters and underscores the parser only ever handles whole (a
\* syscall name, an errno, a flag, a file name) is one token.  A digit is
\* always a token of its own.
Digits == {"0", "1", "2", "3"}
Punct == {"(", ")", " ", "=", ",", "\"", "[", "]", "<", ">", "-", "?", "|",
          "{", "}", "+", ".", ":", "\\"}

\* \d, \w and the blank of the regular expressions.
IsDigit(t) == t \in Digits
IsWordChar(t) == t \notin Punct
IsSpace(t) == t = " "

Take(s, n) == SubSeq(s, 1, n)
Drop(s, n) == SubSeq(s, n + 1, Len(s))

\* s.startswith(lit)
StartsWith(s, lit) == Len(s) >= Len(lit) /\ SubSeq(s, 1, Len(lit)) = lit
EndsWith(s, lit) ==
    Len(s) >= Len(lit) /\ SubSeq(s, Len(s) - Len(lit) + 1, Len(s)) = lit

\* The length of the longest prefix of s made of digits, of word characters,
\* of blanks: what a greedy \d+, \w+ or " +" consumes.
RECURSIVE DigitRun(_)
DigitRun(s) == IF s # <<>> /\ IsDigit(Head(s)) THEN 1 + DigitRun(Tail(s)) ELSE 0
RECURSIVE WordRun(_)
WordRun(s) == IF s # <<>> /\ IsWordChar(Head(s)) THEN 1 + WordRun(Tail(s)) ELSE 0
RECURSIVE SpaceRun(_)
SpaceRun(s) == IF s # <<>> /\ IsSpace(Head(s)) THEN 1 + SpaceRun(Tail(s)) ELSE 0

DigitVal(t) == CASE t = "0" -> 0 [] t = "1" -> 1 [] t = "2" -> 2 [] t = "3" -> 3

RECURSIVE DecimalValue(_)
DecimalValue(ds) ==
    IF ds = <<>> THEN 0
    ELSE 10 * DecimalValue(SubSeq(ds, 1, Len(ds) - 1)) + DigitVal(ds[Len(ds)])

\* int(s) for s matching \d+ or -\d+.
int(s) == IF Head(s) = "-" THEN 0 - DecimalValue(Tail(s)) ELSE DecimalValue(s)

DigitTok(d) == CASE d = 0 -> "0" [] d = 1 -> "1" [] d = 2 -> "2" [] d = 3 -> "3"

\* '{}'.format(n) for n >= 0.
RECURSIVE format(_)
format(n) ==
    IF n < 10 THEN <<DigitTok(n)>> ELSE Append(format(n \div 10), DigitTok(n % 10))

\* s.strip()
RECURSIVE lstrip(_)
lstrip(s) == IF s # <<>> /\ IsSpace(Head(s)) THEN lstrip(Tail(s)) ELSE s
RECURSIVE rstrip(_)
rstrip(s) ==
    IF s # <<>> /\ IsSpace(s[Len(s)]) THEN rstrip(SubSeq(s, 1, Len(s) - 1)) ELSE s
strip(s) == rstrip(lstrip(s))

\* ------------------------------------------------------ the line patterns
\* A pattern's outcome is [m |-> FALSE], or m |-> TRUE with its groups.
NoMatch == [m |-> FALSE]

\* ^(\d+) +    d digits, then sp blanks
LinePrefix(line) ==
    LET d == DigitRun(line)
        sp == SpaceRun(Drop(line, d))
    IN  IF d >= 1 /\ sp >= 1
        THEN [m |-> TRUE, pid |-> Take(line, d), rest |-> Drop(line, d + sp)]
        ELSE NoMatch

\* ^(\d+) +(\w+)\(   after the prefix p: w word characters, then the
\* parenthesis
FuncOpen(p) ==
    LET w == IF p.m THEN WordRun(p.rest) ELSE 0
    IN  IF w >= 1 /\ Len(p.rest) > w /\ p.rest[w + 1] = "("
        THEN [m |-> TRUE, pid |-> p.pid, func |-> Take(p.rest, w),
              rest |-> Drop(p.rest, w + 1)]
        ELSE NoMatch

\* The position of the first ">" of w after its first token, 0 if none.
RECURSIVE FirstClose(_, _)
FirstClose(w, k) ==
    IF k > Len(w) THEN 0 ELSE IF w[k] = ">" THEN k ELSE FirstClose(w, k + 1)

\* (?:<.*?>)?(.*)$  the optional annotation is the shortest <...>
AfterRet(w) ==
    IF w # <<>> /\ Head(w) = "<" THEN Drop(w, FirstClose(w, 2)) ELSE w

\* (-?\d+|\?)  the number of tokens of v it takes, 0 if it does not match
RetLen(v) ==
    LET neg == IF v # <<>> /\ Head(v) = "-" THEN 1 ELSE 0
        d == DigitRun(Drop(v, neg))
    IN  IF d >= 1 THEN neg + d
        ELSE IF v # <<>> /\ Head(v) = "?" THEN 1 ELSE 0

\* \) += (-?\d+|\?)(?:<.*?>)?(.*)$  matched at the start of t: the
\* parenthesis, sp blanks, "= ", n tokens of return value
RetTail(t) ==
    LET sp == IF t # <<>> THEN SpaceRun(Tail(t)) ELSE 0
        n == RetLen(Drop(t, 3 + sp))
    IN  IF /\ t # <<>> /\ Head(t) = ")"
           /\ sp >= 1 /\ StartsWith(Drop(t, 1 + sp), <<"=", " ">>)
           /\ n >= 1
        THEN [m |-> TRUE, ret |-> SubSeq(t, 4 + sp, 3 + sp + n),
              rest |-> AfterRet(Drop(t, 3 + sp + n))]
        ELSE NoMatch

\* The greatest j <= k for which s from its token j + 1 on matches RetTail,
\* -1 if there is none: where the greedy (.*) of the args ends.
RECURSIVE LastRetTail(_, _)
LastRetTail(s, k) ==
    IF k < 0 THEN 0 - 1
    ELSE IF RetTail(Drop(s, k)).m THEN k
    ELSE LastRetTail(s, k - 1)

\* (.*)\) += (-?\d+|\?)(?:<.*?>)?(.*)$   after the name and parenthesis f
FullFunc(f) ==
    LET j == IF f.m THEN LastRetTail(f.rest, Len(f.rest)) ELSE 0 - 1
    IN  IF j >= 0
        THEN [m |-> TRUE, pid |-> f.pid, func |-> f.func,
              args |-> Take(f.rest, j),
              ret |-> RetTail(Drop(f.rest, j)).ret,
              rest |-> RetTail(Drop(f.rest, j)).rest]
        ELSE NoMatch

\* _LineParsers[0]: ^(\d+) +(\w+)\((.*)\) += (-?\d+|\?)(?:<.*?>)?(.*)$
MatchFull(line) == FullFunc(FuncOpen(LinePrefix(line)))

Unfinished == <<" ", "<", "unfinished", " ", ".", ".", ".", ">">>

UnfinishedFunc(f) ==
    IF f.m /\ EndsWith(f.rest, Unfinished)
    THEN [m |-> TRUE, pid |-> f.pid, func |-> f.func,
          partial_args |-> Take(f.rest, Len(f.rest) - Len(Unfinished))]
    ELSE NoMatch

\* _LineParsers[1]: ^(\d+) +(\w+)\((.*) <unfinished \.\.\.>$
MatchUnfinished(line) == UnfinishedFunc(FuncOpen(LinePrefix(line)))

ResumedOpen == <<"<", ".", ".", ".", " ">>
ResumedClose == <<" ", "resumed", ">", " ">>

\* <\.\.\. (\w+) resumed> (.*)$   after the prefix p
ResumedPrefix(p) ==
    LET s == IF p.m /\ StartsWith(p.rest, ResumedOpen)
             THEN Drop(p.rest, Len(ResumedOpen)) ELSE <<>>
        w == WordRun(s)
    IN  IF w >= 1 /\ StartsWith(Drop(s, w), ResumedClose)
        THEN [m |-> TRUE, pid |-> p.pid, func |-> Take(s, w),
              rest |-> Drop(s, w + Len(ResumedClose))]
        ELSE NoMatch

\* _LineParsers[2]: ^(\d+) +<\.\.\. (\w+) resumed> (.*)$
MatchResumed(line) == ResumedPrefix(LinePrefix(line))

SignalOpen == <<"-", "-", "-", " ">>
SignalBrace == <<" ", "{">>
SignalClose == <<"}", " ", "-", "-", "-">>

\* --- (\w+) {(.*)} ---$   after the prefix p
SignalPrefix(p) ==
    LET s == IF p.m /\ StartsWith(p.rest, SignalOpen)
             THEN Drop(p.rest, Len(SignalOpen)) ELSE <<>>
        w == WordRun(s)
    IN  IF w >= 1 /\ StartsWith(Drop(s, w), SignalBrace)
           /\ EndsWith(Drop(s, w + Len(SignalBrace)), SignalClose)
        THEN [m |-> TRUE, pid |-> p.pid, signal |-> Take(s, w),
              args |-> SubSeq(s, w + Len(SignalBrace) + 1,
                              Len(s) - Len(SignalClose))]
        ELSE NoMatch

\* _LineParsers[3]: ^(\d+) +--- (\w+) {(.*)} ---$
MatchSignal(line) == SignalPrefix(LinePrefix(line))

ExitOpen == <<"+", "+", "+", " ", "exited", " ", "with", " ">>
ExitClose == <<" ", "+", "+", "+">>

\* \+\+\+ exited with (\d+) \+\+\+$   after the prefix p
ExitPrefix(p) ==
    LET s == IF p.m /\ StartsWith(p.rest, ExitOpen)
             THEN Drop(p.rest, Len(ExitOpen)) ELSE <<>>
        d == DigitRun(s)
    IN  IF d >= 1 /\ Drop(s, d) = ExitClose
        THEN [m |-> TRUE, pid |-> p.pid, exit_code |-> Take(s, d)]
        ELSE NoMatch

\* _LineParsers[4]: ^(\d+) +\+\+\+ exited with (\d+) \+\+\+$
MatchExit(line) == ExitPrefix(LinePrefix(line))

\* ------------------------------------------------- syscall argument parsers
\* A parser returns the value and the rest of the input, or raises.
Parsed(val, rest) == [ok |-> TRUE, val |-> val, rest |-> rest]
Raised(exc) == [ok |-> FALSE, exc |-> exc]

\* Lines 82-91: the loop over s[1:], from index i on; i in the result is
\* where the loop variable stands when the loop is left.
RECURSIVE ScanString(_, _, _, _)
ScanString(t, i, escape, acc) ==
    IF i > Len(t) THEN [ret |-> acc, i |-> Len(t)]
    ELSE IF escape THEN ScanString(t, i + 1, FALSE, Append(acc, t[i]))
    ELSE IF t[i] = "\\" THEN ScanString(t, i + 1, TRUE, acc)
    ELSE IF t[i] = "\"" THEN [ret |-> acc, i |-> i]
    ELSE ScanString(t, i + 1, FALSE, Append(acc, t[i]))

\* _parse_string.  With nothing after the opening quote the loop variable i
\* is never bound and line 92 raises UnboundLocalError.
parse_string(s) ==
    IF StartsWith(s, <<"NULL">>) THEN Parsed(None, Drop(s, 1))
    ELSE IF ~StartsWith(s, <<"\"">>) THEN Raised("ValueError")
    ELSE IF Len(s) = 1 THEN Raised("UnboundLocalError")
    ELSE LET r == ScanString(Tail(s), 1, FALSE, <<>>)
         IN  Parsed(Some(r.ret), Drop(s, r.i + 1))

\* Lines 107-112: the loop of _parse_array.
RECURSIVE ArrayItems(_, _)
ArrayItems(s, acc) ==
    IF s = <<>> THEN Raised("IndexError")
    ELSE IF Head(s) = "]" THEN Parsed(acc, Tail(s))
    ELSE LET r == parse_string(s)
         IN  IF ~r.ok THEN r
             ELSE ArrayItems(IF StartsWith(r.rest, <<",", " ">>)
                             THEN Drop(r.rest, 2) ELSE r.rest,
                             Append(acc, r.val))

\* _parse_array
parse_array(s) ==
    IF ~StartsWith(s, <<"[">>) THEN Raised("AssertionError")
    ELSE ArrayItems(Tail(s), <<>>)

\* s.index(c) from k on, counted from 1; 0 when c is not in s.
RECURSIVE Find(_, _, _)
Find(s, c, k) ==
    IF k > Len(s) THEN 0 ELSE IF s[k] = c THEN k ELSE Find(s, c, k + 1)

\* Lines 59-63 and 96-100: sub is s up to its first comma, s what is left.
UpToComma(s) ==
    LET k == Find(s, ",", 1)
    IN  IF k = 0 THEN [sub |-> s, s |-> <<>>]
        ELSE [sub |-> Take(s, k - 1), s |-> Drop(s, k - 1)]

\* The value of a digit of base 16, 16 for any other token.
HexVal(t) ==
    IF IsDigit(t) THEN DigitVal(t)
    ELSE CASE t = "a" -> 10 [] t = "b" -> 11 [] t = "c" -> 12
           [] t = "d" -> 13 [] t = "e" -> 14 [] t = "f" -> 15
           [] OTHER -> 16

RECURSIVE BaseValue(_, _)
BaseValue(digs, base) ==
    IF digs = <<>> THEN 0
    ELSE base * BaseValue(Take(digs, Len(digs) - 1), base)
             + HexVal(digs[Len(digs)])

\* int(digs, base) of a text without sign
Based(digs, base, rest) ==
    IF digs # <<>> /\ \A k \in 1..Len(digs) : HexVal(digs[k]) < base
    THEN Parsed(BaseValue(digs, base), rest)
    ELSE Raised("ValueError")

\* _parse_number
parse_number(s) ==
    LET c == UpToComma(s)
    IN  IF c.sub = <<"NULL">> \/ c.sub = <<"0">> THEN Parsed(0, c.s)
        ELSE IF StartsWith(c.sub, <<"0", "x">>) THEN Based(Drop(c.sub, 2), 16, c.s)
        ELSE IF StartsWith(c.sub, <<"0">>) THEN Based(Drop(c.sub, 1), 8, c.s)
        ELSE Based(c.sub, 10, c.s)

\* sub.split(c)
RECURSIVE Split(_, _)
Split(sub, c) ==
    IF Find(sub, c, 1) = 0 THEN <<sub>>
    ELSE <<Take(sub, Find(sub, c, 1) - 1)>> \o Split(Drop(sub, Find(sub, c, 1)), c)

\* _parse_bitwise_or
parse_bitwise_or(s) == Parsed(Split(UpToComma(s).sub, "|"), UpToComma(s).s)

\* Lines 140-147: a file descriptor, AT_FDCWD or n<path>; k is where the
\* first ">" of args stands and j where the first "<" before it stands.
parse_fd(args, k, j) ==
    IF StartsWith(args, <<"AT_FDCWD">>) THEN Parsed(Some(<<".">>), Drop(args, 1))
    ELSE IF k = 0 \/ j = 0 THEN Raised("ValueError")
    ELSE IF ~parse_number(Take(args, j - 1)).ok THEN Raised("ValueError")
    ELSE Parsed(Some(SubSeq(args, j + 1, k - 1)), Drop(args, k))

\* What a schema letter yields: the item r parsed, as a list of one.
Item(r) == IF r.ok THEN Parsed(<<r.val>>, r.rest) ELSE r

\* Lines 136-156: one token of the schema, "*" apart.
ParseToken(token, args) ==
    CASE token = "," ->
             IF StartsWith(args, <<",", " ">>) THEN Parsed(<<>>, Drop(args, 2))
             ELSE Raised("AssertionError")
      [] token = "n" -> Item(parse_number(args))
      [] token = "f" ->
             Item(parse_fd(args, Find(args, ">", 1),
                           Find(Take(args, Find(args, ">", 1)), "<", 1)))
      [] token = "s" -> Item(parse_string(args))
      [] token = "|" -> Item(parse_bitwise_or(args))
      [] token = "a" -> Item(parse_array(args))
      [] OTHER -> Raised("AssertionError")

\* The items yielded for a token and those yielded for the tokens after it.
Items(one, more) ==
    IF ~more.ok THEN more ELSE Parsed(one.val \o more.val, <<>>)

\* Lines 133-159: the loop over the schema from a token on, optional being
\* set once "*" was seen; val is the list of the yielded items.  AfterItem
\* is the loop after the token gave one.
RECURSIVE ParseItems(_, _, _)
RECURSIVE AfterItem(_, _, _)
\* The loop of _parse_args without the assertion of line 159.
ParseItems_NoFinalAssert(spec, args, optional) ==
    IF spec = <<>> THEN Parsed(<<>>, <<>>)
    ELSE AfterItem(spec, optional,
                   IF Head(spec) = "*" THEN Parsed(<<>>, args)
                   ELSE IF optional /\ args = <<>>
                   THEN Parsed(IF Head(spec) = "," THEN <<>> ELSE <<None>>, args)
                   ELSE ParseToken(Head(spec), args))

ParseItems(spec, args, optional) ==
    IF spec = <<>>
    THEN IF args = <<>> THEN Parsed(<<>>, <<>>) ELSE Raised("AssertionError")
    ELSE AfterItem(spec, optional,
                   IF Head(spec) = "*" THEN Parsed(<<>>, args)
                   ELSE IF optional /\ args = <<>>
                   THEN Parsed(IF Head(spec) = "," THEN <<>> ELSE <<None>>, args)
                   ELSE ParseToken(Head(spec), args))

AfterItem(spec, optional, one) ==
    IF ~one.ok THEN one
    ELSE Items(one, ParseItems(Tail(spec), one.rest,
                               optional \/ Head(spec) = "*"))

\* _parse_args
parse_args(spec, args) == ParseItems(spec, args, FALSE)

\* ------------------------------------------------------------ trace events
TraceEvent(pid, event, args) == [pid |-> pid, event |-> event, args |-> args]

\* What a generator did: the events it yielded, and whether it then returned
\* or raised.
Yielded(events) == [ok |-> TRUE, events |-> events]
Failed(events) == [ok |-> FALSE, events |-> events]

\* The position of the first "=" of s from k on, 0 if none.
RECURSIVE FirstEquals(_, _)
FirstEquals(s, k) ==
    IF k > Len(s) THEN 0 ELSE IF s[k] = "=" THEN k ELSE FirstEquals(s, k + 1)

\* s.split('=', 1)
SplitAtFirstEquals(s) ==
    LET k == FirstEquals(s, 1)
    IN  IF k = 0 THEN <<s>> ELSE <<Take(s, k - 1), Drop(s, k)>>

\* dict(...) takes the entry s after the entries of d: an entry that is
\* None or has no '=' raises; a later entry replaces an earlier one with
\* the same key.
EnvEntry(d, s) ==
    IF ~d.ok THEN d
    ELSE IF s = None THEN Raised("AttributeError")
    ELSE LET kv == SplitAtFirstEquals(s[1])
         IN  IF Len(kv) # 2 THEN Raised("ValueError")
             ELSE [ok |-> TRUE,
                   val |-> [k \in DOMAIN d.val \cup {kv[1]} |->
                               IF k = kv[1] THEN kv[2] ELSE d.val[k]]]

\* Line 188: dict(s.split('=', 1) for s in env_s)
RECURSIVE EnvDict(_)
EnvDict(env_s) ==
    IF env_s = <<>> THEN [ok |-> TRUE, val |-> <<>>]
    ELSE EnvEntry(EnvDict(Take(env_s, Len(env_s) - 1)), env_s[Len(env_s)])

\* --------------------------------------------------------- syscall handlers
\* _handle_syscall_chdir
handle_syscall_chdir(pid, func, args, retv, rest) ==
    LET a == parse_args(<<"s">>, args)
    IN  IF ~a.ok THEN Failed(<<>>)
        ELSE IF ~(retv = Some(0) /\ rest = <<>>) THEN Failed(<<>>)
        ELSE Yielded(<<TraceEvent(pid, "chdir", <<a.val[1]>>)>>)

\* Lines 189-200 that report every failed execve as a check of an existing
\* file.
execve_events_AnyErrnoExists(pid, func, retv, rest, executable, argv, env) ==
    IF ~env.ok THEN Failed(<<>>)
    ELSE IF retv = Some(0)
    THEN IF rest # <<>> THEN Failed(<<>>)
         ELSE Yielded(<<TraceEvent(pid, "exec", <<executable, argv, env.val>>)>>)
    ELSE Yielded(<<TraceEvent(pid, "check", <<executable, TRUE>>)>>)

\* Lines 189-200, given the parsed arguments and the env dictionary.
execve_events(pid, func, retv, rest, executable, argv, env) ==
    IF ~env.ok THEN Failed(<<>>)
    ELSE IF func # <<"execve">> THEN Failed(<<>>)
    ELSE IF retv = Some(0)
    THEN IF rest # <<>> THEN Failed(<<>>)
         ELSE Yielded(<<TraceEvent(pid, "exec", <<executable, argv, env.val>>)>>)
    ELSE IF retv # Some(0 - 1) THEN Failed(<<>>)
    ELSE IF StartsWith(rest, <<"ENOENT", " ">>)
    THEN Yielded(<<TraceEvent(pid, "check", <<executable, FALSE>>)>>)
    ELSE IF StartsWith(rest, <<"EACCES", " ">>)
    THEN Yielded(<<TraceEvent(pid, "check", <<executable, TRUE>>)>>)
    ELSE Failed(<<>>)

\* _handle_syscall_execve
handle_syscall_execve(pid, func, args, retv, rest) ==
    LET a == parse_args(<<"s", ",", "a", ",", "a">>, args)
    IN  IF ~a.ok THEN Failed(<<>>)
        ELSE execve_events(pid, func, retv, rest, a.val[1], a.val[2],
                           EnvDict(a.val[3]))

\* set(flags), set(oflag)
set(l) == {l[k] : k \in 1..Len(l)}

\* ret > 0 and not rest; with ret None the comparison raises TypeError.
Succeeded(retv, rest) == retv # None /\ retv[1] > 0 /\ rest = <<>>

\* args.partition('flags=')[2]: what follows the first "flags=" from k on,
\* the empty text when there is none.
RECURSIVE AfterFlags(_, _)
AfterFlags(args, k) ==
    IF k >= Len(args) THEN <<>>
    ELSE IF args[k] = "flags" /\ args[k + 1] = "=" THEN Drop(args, k + 1)
    ELSE AfterFlags(args, k + 1)

\* _handle_syscall_clone
handle_syscall_clone(pid, func, args, retv, rest) ==
    IF set(parse_bitwise_or(AfterFlags(args, 1)).val)
           # {<<"CLONE_CHILD_CLEARTID">>, <<"CLONE_CHILD_SETTID">>, <<"SIGCHLD">>}
    THEN Failed(<<>>)
    ELSE IF ~Succeeded(retv, rest) THEN Failed(<<>>)
    ELSE Yielded(<<TraceEvent(pid, "fork", <<retv[1]>>)>>)

\* Lines 213-225, given the path and the set of flags.
open_events(pid, retv, rest, path, oflag) ==
    IF retv = Some(0 - 1)
    THEN IF <<"O_RDONLY">> \notin oflag THEN Failed(<<>>)
         ELSE IF ~StartsWith(rest, <<"ENOENT", " ">>) THEN Failed(<<>>)
         ELSE Yielded(<<TraceEvent(pid, "check", <<path, FALSE>>)>>)
    ELSE IF <<"O_RDONLY">> \in oflag
    THEN IF ~Succeeded(retv, rest) THEN Failed(<<>>)
         ELSE Yielded(<<TraceEvent(pid, "read", <<path>>)>>)
    ELSE IF {<<"O_WRONLY">>, <<"O_RDWR">>} \cap oflag # {}
    THEN IF ~Succeeded(retv, rest) THEN Failed(<<>>)
         ELSE Yielded(<<TraceEvent(pid, "write", <<path>>)>>)
    ELSE Failed(<<>>)

\* Lines 208-212, a being the parsed arguments: base, path, oflag, mode for
\* openat and path, oflag, mode for open.
open_args(pid, func, retv, rest, a) ==
    IF ~a.ok THEN Failed(<<>>)
    ELSE IF func = <<"openat">>
    THEN IF a.val[1] # Some(<<".">>) THEN Failed(<<>>)
         ELSE open_events(pid, retv, rest, a.val[2], set(a.val[3]))
    ELSE open_events(pid, retv, rest, a.val[1], set(a.val[2]))

\* _handle_syscall_open, which is _handle_syscall_openat as well
handle_syscall_open(pid, func, args, retv, rest) ==
    open_args(pid, func, retv, rest,
              parse_args(IF func = <<"openat">>
                         THEN <<"f", ",", "s", ",", "|", "*", ",", "n">>
                         ELSE <<"s", ",", "|", "*", ",", "n">>, args))

\* Lines 235-242: the except branch, b being the arguments parsed again.
readlink_failed(pid, retv, rest, b) ==
    IF ~b.ok THEN Failed(<<>>)
    ELSE IF retv # Some(0 - 1) THEN Failed(<<>>)
    ELSE IF StartsWith(rest, <<"ENOENT", " ">>)
    THEN Yielded(<<TraceEvent(pid, "check", <<b.val[1], FALSE>>)>>)
    ELSE IF StartsWith(rest, <<"EINVAL", " ">>)
    THEN Yielded(<<TraceEvent(pid, "check", <<b.val[1], TRUE>>)>>)
    ELSE Failed(<<>>)

\* Lines 230-234, a being the arguments parsed in the try branch.
readlink_events(pid, args, retv, rest, a) ==
    IF a.ok
    THEN IF ~Succeeded(retv, rest) THEN Failed(<<>>)
         ELSE Yielded(<<TraceEvent(pid, "read", <<a.val[1]>>)>>)
    ELSE IF a.exc # "ValueError" THEN Failed(<<>>)
    ELSE readlink_failed(pid, retv, rest,
                         parse_args(<<"s", ",", "n", ",", "n">>, args))

\* _handle_syscall_readlink
handle_syscall_readlink(pid, func, args, retv, rest) ==
    readlink_events(pid, args, retv, rest,
                    parse_args(<<"s", ",", "s", ",", "n">>, args))

\* _handle_syscall_vfork
handle_syscall_vfork(pid, func, args, retv, rest) ==
    IF args # <<>> THEN Failed(<<>>)
    ELSE IF ~Succeeded(retv, rest) THEN Failed(<<>>)
    ELSE Yielded(<<TraceEvent(pid, "fork", <<retv[1]>>)>>)

\* _handle_syscall_access
handle_syscall_access(pid, func, args, retv, rest) ==
    LET a == parse_args(<<"s", ",", "|">>, args)
    IN  IF ~a.ok THEN Failed(<<>>)
        ELSE IF set(a.val[2]) \ {<<"F_OK">>, <<"R_OK">>, <<"W_OK">>, <<"X_OK">>}
                    # {}
        THEN Failed(<<>>)
        ELSE IF retv = Some(0)
        THEN Yielded(<<TraceEvent(pid, "check", <<a.val[1], TRUE>>)>>)
        ELSE IF retv = Some(0 - 1) /\ StartsWith(rest, <<"ENOENT", " ">>)
        THEN Yielded(<<TraceEvent(pid, "check", <<a.val[1], FALSE>>)>>)
        ELSE Failed(<<>>)

\* _handle_syscall_getxattr
handle_syscall_getxattr(pid, func, args, retv, rest) ==
    LET a == parse_args(<<"s", ",", "s", ",", "n", ",", "n">>, args)
    IN  IF ~a.ok THEN Failed(<<>>)
        ELSE IF ~(retv = Some(0 - 1) /\ StartsWith(rest, <<"ENODATA", " ">>))
        THEN Failed(<<>>)
        ELSE Yielded(<<TraceEvent(pid, "check", <<a.val[1], TRUE>>)>>)

\* _handle_syscall_rename with the assertion of line 246 moved behind the
\* first yield.
handle_syscall_rename_ChecksLate(pid, func, args, retv, rest) ==
    LET a == parse_args(<<"s", ",", "s">>, args)
    IN  IF ~a.ok THEN Failed(<<>>)
        ELSE IF ~(retv = Some(0) /\ rest = <<>>)
        THEN Failed(<<TraceEvent(pid, "write", <<a.val[1]>>)>>)
        ELSE Yielded(<<TraceEvent(pid, "write", <<a.val[1]>>),
                       TraceEvent(pid, "write", <<a.val[2]>>)>>)

\* _handle_syscall_rename
handle_syscall_rename(pid, func, args, retv, rest) ==
    LET a == parse_args(<<"s", ",", "s">>, args)
    IN  IF ~a.ok THEN Failed(<<>>)
        ELSE IF ~(retv = Some(0) /\ rest = <<>>) THEN Failed(<<>>)
        ELSE Yielded(<<TraceEvent(pid, "write", <<a.val[1]>>),
                       TraceEvent(pid, "write", <<a.val[2]>>)>>)

\* _handle_syscall_stat, which is _handle_syscall_lstat as well
handle_syscall_stat(pid, func, args, retv, rest) ==
    LET a == parse_args(<<"s", ",", "n">>, args)
    IN  IF ~a.ok THEN Failed(<<>>)
        ELSE IF retv = Some(0)
        THEN IF rest # <<>> THEN Failed(<<>>)
             ELSE Yielded(<<TraceEvent(pid, "check", <<a.val[1], TRUE>>)>>)
        ELSE IF ~(retv = Some(0 - 1) /\ StartsWith(rest, <<"ENOENT", " ">>))
        THEN Failed(<<>>)
        ELSE Yielded(<<TraceEvent(pid, "check", <<a.val[1], FALSE>>)>>)

\* _handle_syscall_unlink
handle_syscall_unlink(pid, func, args, retv, rest) ==
    LET a == parse_args(<<"s">>, args)
    IN  IF ~a.ok THEN Failed(<<>>)
        ELSE IF ~(retv = Some(0) /\ rest = <<>>) THEN Failed(<<>>)
        ELSE Yielded(<<TraceEvent(pid, "write", <<a.val[1]>>)>>)

\* _handle_syscall_utimensat; the return value is not looked at.
handle_syscall_utimensat(pid, func, args, retv, rest) ==
    LET a == parse_args(<<"f", ",", "s", ",", "n", ",", "n">>, args)
    IN  IF ~a.ok THEN Failed(<<>>)
        ELSE IF ~(a.val[2] = None /\ a.val[3] = 0 /\ a.val[4] = 0)
        THEN Failed(<<>>)
        ELSE Yielded(<<TraceEvent(pid, "write", <<a.val[1]>>)>>)

\* _ignore_syscall
ignore_syscall(pid, func, args, retv, rest) == Yielded(<<>>)

\* The names n for which the class has an attribute _handle_syscall_n.
Ignored == {"arch_prctl", "exit_group", "getcwd", "wait4"}
HandlerNames ==
    {"access", "chdir", "clone", "execve", "getxattr", "open", "openat",
     "readlink", "rename", "stat", "lstat", "unlink", "utimensat", "vfork"}
    \cup Ignored

\* handler(int(pid), func, args, ret, rest.strip())
call_handler(pid, func, args, retv, rest) ==
    CASE func[1] = "access" -> handle_syscall_access(pid, func, args, retv, rest)
      [] func[1] = "getxattr" ->
             handle_syscall_getxattr(pid, func, args, retv, rest)
      [] func[1] = "rename" -> handle_syscall_rename(pid, func, args, retv, rest)
      [] func[1] \in {"stat", "lstat"} ->
             handle_syscall_stat(pid, func, args, retv, rest)
      [] func[1] = "unlink" -> handle_syscall_unlink(pid, func, args, retv, rest)
      [] func[1] = "utimensat" ->
             handle_syscall_utimensat(pid, func, args, retv, rest)
      [] func[1] = "chdir" -> handle_syscall_chdir(pid, func, args, retv, rest)
      [] func[1] = "clone" -> handle_syscall_clone(pid, func, args, retv, rest)
      [] func[1] = "execve" -> handle_syscall_execve(pid, func, args, retv, rest)
      [] func[1] \in {"open", "openat"} ->
             handle_syscall_open(pid, func, args, retv, rest)
      [] func[1] = "readlink" ->
             handle_syscall_readlink(pid, func, args, retv, rest)
      [] func[1] = "vfork" -> handle_syscall_vfork(pid, func, args, retv, rest)
      [] func[1] \in Ignored -> ignore_syscall(pid, func, args, retv, rest)

\* getattr(self, '_handle_syscall_' + func) that falls back to
\* _ignore_syscall for a name without handler.
handler_DefaultsToIgnore(pid, func, args, retv, rest) ==
    IF Len(func) # 1 \/ func[1] \notin HandlerNames THEN Yielded(<<>>)
    ELSE call_handler(pid, func, args, retv, rest)

\* Lines 292-293: getattr(self, '_handle_syscall_' + func)(...); a name
\* without handler raises AttributeError.
handler(pid, func, args, retv, rest) ==
    IF Len(func) # 1 \/ func[1] \notin HandlerNames THEN Failed(<<>>)
    ELSE call_handler(pid, func, args, retv, rest)

\* ------------------------------------------------------------ line parsers
\* A line parser's outcome: what the generator did and the pending map as
\* it leaves it.
Outcome(g, pend) == [ok |-> g.ok, events |-> g.events, pending |-> pend]

\* _parse_syscall_full
parse_syscall_full(pid, func, args, retv, rest) ==
    handler(int(pid), func, args,
            IF retv = <<"?">> THEN None ELSE Some(int(retv)), strip(rest))

\* _parse_syscall_unfinished without the assertion of line 297: the later
\* unfinished syscall replaces the pending one.
parse_syscall_unfinished_Overwrites(pend, pid, func, partial_args) ==
    Outcome(Yielded(<<>>),
            [q \in DOMAIN pend \cup {int(pid)} |->
                IF q = int(pid) THEN <<func, partial_args>> ELSE pend[q]])

\* _parse_syscall_unfinished
parse_syscall_unfinished(pend, pid, func, partial_args) ==
    IF int(pid) \in DOMAIN pend THEN Outcome(Failed(<<>>), pend)
    ELSE Outcome(Yielded(<<>>),
                 [q \in DOMAIN pend \cup {int(pid)} |->
                     IF q = int(pid) THEN <<func, partial_args>> ELSE pend[q]])

\* Lines 312-314: the reconstructed line, matched as m, goes to
\* _parse_syscall_full.
parse_reconstructed(popped, m) ==
    IF ~m.m THEN Outcome(Failed(<<>>), popped)
    ELSE Outcome(parse_syscall_full(m.pid, m.func, m.args, m.ret, m.rest),
                 popped)

\* _parse_syscall_resumed that forgets every pending syscall.
parse_syscall_resumed_ClearsAll(pend, pid, func, rest) ==
    LET p == int(pid)
    IN  IF p \notin DOMAIN pend THEN Outcome(Failed(<<>>), pend)
        ELSE IF func # pend[p][1] THEN Outcome(Failed(<<>>), pend)
        ELSE parse_reconstructed(
                 <<>>,
                 MatchFull(format(p) \o <<" ">> \o func \o <<"(">>
                               \o pend[p][2] \o rest))

\* _parse_syscall_resumed that falls back on the pending syscall of another
\* PID when its own PID has none.
parse_syscall_resumed_AnyPending(pend, pid, func, rest) ==
    LET p == IF int(pid) \in DOMAIN pend \/ DOMAIN pend = {} THEN int(pid)
             ELSE CHOOSE q \in DOMAIN pend : TRUE
    IN  IF p \notin DOMAIN pend THEN Outcome(Failed(<<>>), pend)
        ELSE IF func # pend[p][1] THEN Outcome(Failed(<<>>), pend)
        ELSE parse_reconstructed(
                 [q \in DOMAIN pend \ {p} |-> pend[q]],
                 MatchFull(format(int(pid)) \o <<" ">> \o func \o <<"(">>
                               \o pend[p][2] \o rest))

\* _parse_syscall_resumed
parse_syscall_resumed(pend, pid, func, rest) ==
    LET p == int(pid)
    IN  IF p \notin DOMAIN pend THEN Outcome(Failed(<<>>), pend)
        ELSE IF func # pend[p][1] THEN Outcome(Failed(<<>>), pend)
        ELSE parse_reconstructed(
                 [q \in DOMAIN pend \ {p} |-> pend[q]],
                 MatchFull(format(p) \o <<" ">> \o func \o <<"(">>
                               \o pend[p][2] \o rest))

\* _parse_signal
parse_signal(pid, signal, args) ==
    IF signal # <<"SIGCHLD">> THEN Failed(<<>>) ELSE Yielded(<<>>)

\* _parse_exit
parse_exit(pid, exit_code) ==
    Yielded(<<TraceEvent(int(pid), "exit", <<int(exit_code)>>)>>)

\* _parse_error that raises.
parse_error_Raises(line) == Failed(<<>>)

\* _parse_error
parse_error(line) == Yielded(<<>>)

\* A pattern of _LineParsers with the groups g of its match.
Shaped(shape, g) == [m |-> g.m, shape |-> shape, g |-> g]

\* Line 346-347: a pattern that does not match leaves the line to the next.
OrElse(first, next) == IF first.m THEN first ELSE next

\* Lines 345-352: the first pattern that matches decides the parser; the
\* last one matches every line.
LineShape(line) ==
    OrElse(Shaped("full", MatchFull(line)),
    OrElse(Shaped("unfinished", MatchUnfinished(line)),
    OrElse(Shaped("resumed", MatchResumed(line)),
    OrElse(Shaped("signal", MatchSignal(line)),
    OrElse(Shaped("exit", MatchExit(line)),
           Shaped("error", [m |-> TRUE]))))))

\* Line 349: parser(self, *m.groups()) for the pattern that matched.
CallParser(pend, line, s) ==
    CASE s.shape = "full" ->
             Outcome(parse_syscall_full(s.g.pid, s.g.func, s.g.args, s.g.ret,
                                        s.g.rest), pend)
      [] s.shape = "unfinished" ->
             parse_syscall_unfinished(pend, s.g.pid, s.g.func,
                                      s.g.partial_args)
      [] s.shape = "resumed" ->
             parse_syscall_resumed(pend, s.g.pid, s.g.func, s.g.rest)
      [] s.shape = "signal" ->
             Outcome(parse_signal(s.g.pid, s.g.signal, s.g.args), pend)
      [] s.shape = "exit" -> Outcome(parse_exit(s.g.pid, s.g.exit_code), pend)
      [] s.shape = "error" -> Outcome(parse_error(line), pend)

\* Lines 345-352 for one line, with the pending map pend.
ParseLine(pend, line) == CallParser(pend, line, LineShape(line))

\* ------------------------------------------------------- the input lines
\* A syscall of the trace: its pid (one digit), its name, the text of its
\* argument list and the text after the closing parenthesis.  For an execve
\* path, argv and envs are the strings its argument list spells.
Syscall(pid, func, args, tail, path, argv, envs) ==
    [pid |-> pid, func |-> func, args |-> args, tail |-> tail,
     path |-> path, argv |-> argv, envs |-> envs]

Quoted(s) == <<"\"">> \o s \o <<"\"">>

RECURSIVE QuotedList(_)
QuotedList(ss) ==
    IF ss = <<>> THEN <<>>
    ELSE IF Len(ss) = 1 THEN Quoted(ss[1])
    ELSE Quoted(Head(ss)) \o <<",", " ">> \o QuotedList(Tail(ss))

Array(ss) == <<"[">> \o QuotedList(ss) \o <<"]">>

RetOk == <<" ", "=", " ", "0">>
RetOkJunk == RetOk \o <<" ", "junk">>
RetUnknown == <<" ", "=", " ", "?">>
RetErrno(errno) ==
    <<" ", "=", " ", "-", "1", " ", errno, " ", "(", "E", ")">>

Execve(pid, envs, tail) ==
    Syscall(pid, "execve",
            Quoted(<<"x">>) \o <<",", " ">> \o Array(<<(<<"x">>)>>)
                \o <<",", " ">> \o Array(envs),
            tail, <<"x">>, <<(<<"x">>)>>, envs)

OneArg(pid, func, s, tail) ==
    Syscall(pid, func, Quoted(s), tail, s, <<>>, <<>>)

EnvKV == <<(<<"K", "=", "v">>)>>
EnvTwoEquals == <<(<<"K", "=", "v", "=", "w">>), (<<"L", "=">>)>>
EnvSameKey == <<(<<"K", "=", "v">>), (<<"K", "=", "w">>)>>
EnvNoEquals == <<(<<"K">>)>>

ExecveLines ==
    {Execve("1", EnvKV, t) :
        t \in {RetOk, RetOkJunk, RetUnknown, RetErrno("ENOENT"),
               RetErrno("EACCES"), RetErrno("ENOEXEC")}}
    \cup {Execve("1", e, RetOk) : e \in {EnvTwoEquals, EnvSameKey, EnvNoEquals}}
    \cup {Execve("1", EnvNoEquals, RetErrno("ENOENT")),
          Execve("2", EnvKV, RetOk)}

\* A directory named `) = 0`.
OddName == <<")", " ", "=", " ", "0">>

\* The syscalls the input also shows cut in two.
SplitSyscalls ==
    {OneArg("1", "chdir", <<"d">>, RetOk),
     OneArg("2", "chdir", <<"d">>, RetOk),
     OneArg("1", "chdir", OddName, RetOk),
     OneArg("1", "mkdir", <<"d">>, RetOk)}

Syscalls ==
    ExecveLines \cup SplitSyscalls
    \cup {Syscall("1", "exit_group", <<"0">>, RetUnknown, <<>>, <<>>, <<>>)}

Call(sc) == <<sc.pid, " ", sc.func, "(">>

\* The line strace prints for sc when nothing interrupts it.
FullLine(sc) == Call(sc) \o sc.args \o <<")">> \o sc.tail

\* The two lines strace prints for sc when it is interrupted after the
\* first k tokens of its argument list.
FirstHalf(sc, k) == Call(sc) \o Take(sc.args, k) \o Unfinished
SecondHalf(sc, k) ==
    <<sc.pid, " ">> \o ResumedOpen \o <<sc.func>> \o ResumedClose
        \o Drop(sc.args, k) \o <<")">> \o sc.tail

SignalLine(pid, signal) ==
    <<pid, " ">> \o SignalOpen \o <<signal, " ", "{", "si_signo", "=", signal>>
        \o SignalClose

ExitLine(pid, code) == <<pid, " ">> \o ExitOpen \o <<code>> \o ExitClose

SignalLines == {SignalLine("1", "SIGCHLD"), SignalLine("1", "SIGSEGV")}
ExitLines == {ExitLine("1", "0"), ExitLine("2", "1")}

\* Lines of none of the five shapes: a banner, an empty line, a "killed by"
\* line.
Unrecognized ==
    {<<"strace", ":", " ", "banner">>,
     <<>>,
     <<"1", " ", "+", "+", "+", " ", "killed", " ", "by", " ", "SIGSEGV",
       " ", "+", "+", "+">>}

OtherLines == SignalLines \cup ExitLines \cup Unrecognized


\* Lines 349-351, given what the parser did.
Emit(line, r) ==
    /\ out' = out \o r.events
    /\ ppending' = r.pending
    /\ IF r.ok
       THEN UNCHANGED <<ppc, perror>>
       ELSE ppc' = "failed" /\ perror' = Some(line)

\* Lines 343-352: the body of the loop of __call__ for one line.
ReadLine(line) ==
    /\ ppc = "parsing"
    /\ nlines < MaxLines
    /\ nlines' = nlines + 1
    /\ lastline' = Some(line)
    /\ Emit(line, ParseLine(ppending, line))

\* The pid a line of the input belongs to, 0 when it names none.
PidOfLine(line) == IF LinePrefix(line).m THEN int(LinePrefix(line).pid) ELSE 0

OriginAfter(line) ==
    [q \in ParserPids |-> IF q = PidOfLine(line) THEN None ELSE origin[q]]

\* The next line is a complete syscall line.
ReadComplete(sc) ==
    /\ ReadLine(FullLine(sc))
    /\ origin' = OriginAfter(FullLine(sc))
    /\ UNCHANGED <<vars, xvars>>

\* The next line is a signal line, an exit line or an unrecognized line.
ReadOther(line) ==
    /\ ReadLine(line)
    /\ origin' = OriginAfter(line)
    /\ UNCHANGED <<vars, xvars>>

\* The next line is the first half of a syscall.
ReadFirstHalf(sc, k) ==
    /\ ReadLine(FirstHalf(sc, k))
    /\ origin' = [origin EXCEPT ![int(<<sc.pid>>)] =
                     IF ppc' = "parsing" THEN Some(<<sc, k>>) ELSE None]
    /\ UNCHANGED <<vars, xvars>>

\* The next line is the second half of a syscall.
ReadSecondHalf(sc, k) ==
    /\ ReadLine(SecondHalf(sc, k))
    /\ origin' = OriginAfter(SecondHalf(sc, k))
    /\ UNCHANGED <<vars, xvars>>

\* Line 343: the input has no more lines.
EndOfInput ==
    /\ ppc = "parsing"
    /\ ppc' = "done"
    /\ UNCHANGED <<perror, ppending, out, nlines, lastline, origin>>
    /\ UNCHANGED <<vars, xvars>>

ParserNext ==
    \/ \E sc \in Syscalls : ReadComplete(sc)
    \/ \E line \in OtherLines : ReadOther(line)
    \/ \E sc \in SplitSyscalls : \E k \in 0..Len(sc.args) : ReadFirstHalf(sc, k)
    \/ \E sc \in SplitSyscalls : \E k \in 0..Len(sc.args) : ReadSecondHalf(sc, k)
    \/ EndOfInput

ParserSpec == Init /\ [][ParserNext]_<<vars, pvars, xvars>>

\* ------------------------------------------- lines of file and fork syscalls
\* The names joined by "|".
RECURSIVE Bar(_)
Bar(names) ==
    IF Len(names) <= 1 THEN names
    ELSE <<Head(names), "|">> \o Bar(Tail(names))

Ret(d) == <<" ", "=", " ", d>>

\* The name of a syscall that takes a directory fd, and the text of the fd.
AtFdcwd == <<"AT_FDCWD", ",", " ">>
DirFd == <<"3", "<", "/", "w", ">", ",", " ">>
DotFd == <<"3", "<", ".", ">", ",", " ">>

\* A syscall of pid 1 on the path f; flags are the names its flags argument
\* joins, fd the text of its directory fd.
FileCall(func, fd, flags, more, tail) ==
    [pid |-> "1", func |-> func,
     args |-> fd \o Quoted(<<"f">>) \o more,
     tail |-> tail, path |-> <<"f">>, flags |-> flags, fd |-> fd]

Mode == <<",", " ", "0", "2", "2", "2">>

OpenFlags ==
    {<<"O_RDONLY">>, <<"O_RDONLY", "O_CLOEXEC">>, <<"O_WRONLY", "O_CREAT">>,
     <<"O_RDWR">>, <<"O_CREAT">>}

OpenTails ==
    {Ret("3"), Ret("0"), RetUnknown, RetErrno("ENOENT"), RetErrno("EACCES")}

OpenCalls ==
    {FileCall(f[1], f[2], flags, <<",", " ">> \o Bar(flags) \o mode, tail) :
        f \in {<<"open", <<>>>>, <<"openat", AtFdcwd>>, <<"openat", DirFd>>,
               <<"openat", DotFd>>},
        flags \in OpenFlags, mode \in {<<>>, Mode}, tail \in OpenTails}

\* readlink(path, buf, bufsiz): strace prints the buffer as a string when
\* the call filled it and as an address when it failed.
Filled == <<",", " ", "\"", "t", "\"", ",", " ", "3", "2">>
Unfilled == <<",", " ", "0", "x", "3", "f", ",", " ", "3", "2">>

ReadlinkCalls ==
    {FileCall(f[1], f[2], <<>>, buf, tail) :
        f \in {<<"readlink", <<>>>>, <<"readlinkat", AtFdcwd>>},
        buf \in {Filled, Unfilled},
        tail \in {Ret("3"), RetErrno("ENOENT"), RetErrno("EINVAL"),
                  RetErrno("EACCES")}}

\* The flags of fork(), of a bare SIGCHLD clone, of posix_spawn() and of a
\* clone without SIGCHLD.
CloneFlags ==
    {<<"CLONE_CHILD_CLEARTID", "CLONE_CHILD_SETTID", "SIGCHLD">>,
     <<"SIGCHLD">>,
     <<"CLONE_VM", "CLONE_VFORK", "SIGCHLD">>,
     <<"CLONE_CHILD_CLEARTID", "CLONE_CHILD_SETTID">>}

ForkCall(func, args, flags, tail) ==
    [pid |-> "1", func |-> func, args |-> args, tail |-> tail,
     path |-> <<>>, flags |-> flags, fd |-> <<>>]

ForkCalls ==
    {ForkCall("clone",
              <<"child_stack", "=", "NULL", ",", " ", "flags", "=">>
                  \o Bar(flags) \o tid,
              flags, tail) :
        flags \in CloneFlags,
        tid \in {<<>>, <<",", " ", "child_tidptr", "=", "0", "x", "3", "f">>},
        tail \in {Ret("2"), RetErrno("EAGAIN")}}
    \cup {ForkCall("vfork", <<>>, <<>>, tail) :
              tail \in {Ret("2"), RetErrno("EAGAIN")}}

SyscallNext ==
    \/ \E sc \in OpenCalls \cup ReadlinkCalls \cup ForkCalls : ReadComplete(sc)
    \/ EndOfInput

SyscallSpec == Init /\ [][SyscallNext]_<<vars, pvars, xvars>>

\* ------------------------------------------ lines of the other file syscalls
OtherCall(func, args, tail) ==
    [pid |-> "1", func |-> func, args |-> args, tail |-> tail]

Null == <<"NULL">>
Sep == <<",", " ">>

AccessCalls ==
    {OtherCall("access", Quoted(<<"f">>) \o Sep \o Bar(mode), tail) :
        mode \in {<<"F_OK">>, <<"R_OK", "X_OK">>, <<"S_OK">>},
        tail \in {RetOk, RetOkJunk, RetUnknown, RetErrno("ENOENT"),
                  RetErrno("EACCES")}}

GetxattrCalls ==
    {OtherCall("getxattr",
               Quoted(<<"f">>) \o Sep \o Quoted(<<"n">>) \o Sep \o Null
                   \o Sep \o <<"0">>,
               tail) :
        tail \in {RetErrno("ENODATA"), RetErrno("ENOENT"), RetOk}}

\* rename("f", "g"), and the same with an argument too many or too few.
RenameArgs ==
    {Quoted(<<"f">>) \o Sep \o Quoted(<<"g">>),
     Quoted(<<"f">>) \o Sep \o Quoted(<<"g">>) \o Sep \o <<"0">>,
     Quoted(<<"f">>)}

RenameCalls ==
    {OtherCall("rename", args, tail) :
        args \in RenameArgs, tail \in {RetOk, RetOkJunk, RetErrno("ENOENT")}}

\* The renames the input also shows cut in two.
SplitRenames ==
    {OtherCall("rename", Quoted(<<"f">>) \o Sep \o Quoted(<<"g">>), tail) :
        tail \in {RetOk, RetErrno("ENOENT")}}

StatCalls ==
    {OtherCall(func, Quoted(<<"f">>) \o Sep \o <<"0", "x", "3", "f">>, tail) :
        func \in {"stat", "lstat"},
        tail \in {RetOk, RetOkJunk, RetUnknown, RetErrno("ENOENT"),
                  RetErrno("EACCES")}}

UnlinkCalls ==
    {OtherCall("unlink", Quoted(<<"f">>), tail) :
        tail \in {RetOk, RetErrno("ENOENT")}}

\* utimensat(fd, NULL, NULL, 0) as touch calls it on an open file, and
\* utimensat with a path.
UtimensatCalls ==
    {OtherCall("utimensat", fd \o path \o Sep \o Null \o Sep \o <<"0">>, tail) :
        fd \in {AtFdcwd, DirFd}, path \in {Null, Quoted(<<"f">>)},
        tail \in {RetOk, RetErrno("ENOENT")}}

OtherCalls ==
    AccessCalls \cup GetxattrCalls \cup RenameCalls \cup StatCalls
    \cup UnlinkCalls \cup UtimensatCalls

HandlerNext ==
    \/ \E sc \in OtherCalls : ReadComplete(sc)
    \/ \E sc \in SplitRenames : \E k \in 0..Len(sc.args) : ReadFirstHalf(sc, k)
    \/ \E sc \in SplitRenames : \E k \in 0..Len(sc.args) : ReadSecondHalf(sc, k)
    \/ EndOfInput

HandlerSpec == Init /\ [][HandlerNext]_<<vars, pvars, xvars>>

\* ------------------------------------------------------ the same lines twice
\* The pending map shared by all parsers: an instance starts with what the
\* one before it left.
NewPending_Shared(old) == old

\* __init__: self.pending = {}, whatever an earlier parser holds.
NewPending(old) == <<>>

TwiceLines ==
    {FullLine(sc) : sc \in SplitSyscalls}
    \cup {FirstHalf(sc, 1) : sc \in SplitSyscalls}
    \cup {SecondHalf(sc, 1) : sc \in SplitSyscalls}
    \cup ExitLines \cup {SignalLine("1", "SIGCHLD")}

\* The first parser reads one more line.
FirstRun(line) ==
    /\ run = 1
    /\ ReadLine(line)
    /\ input' = Append(input, line)
    /\ UNCHANGED <<run1, run, origin>>
    /\ UNCHANGED <<vars, jvars, dvars, avars>>

\* The first parser has failed or its input ends here; a new parser is
\* made to read the same lines.
SecondParser ==
    /\ run = 1
    /\ ppc \in {"parsing", "failed"}
    /\ run1' = Some([ok |-> ppc # "failed", perror |-> perror, out |-> out,
                     nlines |-> nlines, pending |-> ppending])
    /\ run' = 2
    /\ ppc' = "parsing"
    /\ perror' = None
    /\ ppending' = NewPending(ppending)
    /\ out' = <<>>
    /\ nlines' = 0
    /\ lastline' = None
    /\ UNCHANGED <<input, origin>>
    /\ UNCHANGED <<vars, jvars, dvars, avars>>

\* The second parser reads the next of the lines.
Replay ==
    /\ run = 2
    /\ nlines < Len(input)
    /\ ReadLine(input[nlines + 1])
    /\ UNCHANGED <<input, run1, run, origin>>
    /\ UNCHANGED <<vars, jvars, dvars, avars>>

\* Line 343: the second parser finds no more lines.
EndReplay ==
    /\ run = 2
    /\ ppc = "parsing"
    /\ nlines = Len(input)
    /\ ppc' = "done"
    /\ UNCHANGED <<perror, ppending, out, nlines, lastline, origin>>
    /\ UNCHANGED <<input, run1, run>>
    /\ UNCHANGED <<vars, jvars, dvars, avars>>

TwiceNext ==
    \/ \E line \in TwiceLines : FirstRun(line)
    \/ SecondParser
    \/ Replay
    \/ EndReplay

TwiceSpec == Init /\ [][TwiceNext]_<<vars, pvars, xvars>>

\* ------------------------------------------------- argument lists by schema
\* The schemas the handlers of lines 163-273 pass to _parse_args.
Schemas ==
    {<<"s", ",", "|">>,                                \* access
     <<"s">>,                                          \* chdir, unlink
     <<"s", ",", "a", ",", "a">>,                      \* execve
     <<"s", ",", "s", ",", "n", ",", "n">>,            \* getxattr
     <<"f", ",", "s", ",", "|", "*", ",", "n">>,       \* openat
     <<"s", ",", "|", "*", ",", "n">>,                 \* open
     <<"s", ",", "s", ",", "n">>,                      \* readlink
     <<"s", ",", "n", ",", "n">>,                      \* readlink, failed
     <<"s", ",", "s">>,                                \* rename
     <<"s", ",", "n">>,                                \* stat, lstat
     <<"f", ",", "s", ",", "n", ",", "n">>}            \* utimensat

\* Texts strace prints for an argument of each kind.
TokenTexts(token) ==
    CASE token = "s" -> {Quoted(<<"f">>), <<"NULL">>}
      [] token = "n" -> {<<"0">>, <<"3", "2">>, <<"0", "x", "3", "f">>}
      [] token = "f" -> {<<"AT_FDCWD">>, <<"3", "<", "/", "w", ">">>}
      [] token = "|" -> {<<"A">>, <<"A", "|", "B">>}
      [] token = "a" -> {<<"[", "]">>, Array(<<(<<"x">>)>>),
                         Array(<<(<<"x">>), (<<"y">>)>>)}
      [] token = "," -> {<<",", " ">>}
      [] token = "*" -> {<<>>}

\* The argument lists that spell every token of spec.
RECURSIVE Rendered(_)
Rendered(spec) ==
    IF spec = <<>> THEN {<<>>}
    ELSE {t \o r : t \in TokenTexts(Head(spec)), r \in Rendered(Tail(spec))}

\* Text after a complete argument list: a further argument, a lone comma.
Extras == {<<",", " ", "0">>, <<",">>}

\* spec up to its "*", <<>> when it has none.
BeforeMarker(spec) ==
    IF Find(spec, "*", 1) = 0 THEN <<>> ELSE Take(spec, Find(spec, "*", 1) - 1)

\* The inputs of a schema: "whole" argument lists, lists with "extra" text
\* behind them, and lists "cut" where the optional tail begins.
ArgInputs(spec) ==
    {[kind |-> "whole", args |-> a] : a \in Rendered(spec)}
    \cup {[kind |-> "extra", args |-> a \o x] :
              a \in Rendered(spec), x \in Extras}
    \cup {[kind |-> "cut", args |-> a] :
              a \in IF Find(spec, "*", 1) = 0 THEN {}
                    ELSE Rendered(BeforeMarker(spec))}

\* list(self._parse_args(spec, args)): the call and what it gave.
ParseArgs(spec, in) ==
    /\ parsed' = [kind |-> in.kind, spec |-> spec, args |-> in.args,
                  r |-> parse_args(spec, in.args)]
    /\ UNCHANGED <<vars, pvars, jvars, tvars, dvars>>

ArgsNext == \E spec \in Schemas : \E in \in ArgInputs(spec) : ParseArgs(spec, in)

ArgsSpec == Init /\ [][ArgsNext]_<<vars, pvars, xvars>>

\* =============================================================== run_trace
\* The first next() enters temp_fifo: the FIFO is made.
EnterFifo ==
    /\ dpc = "new"
    /\ fifo' = TRUE
    /\ dpc' = "spawn"
    /\ UNCHANGED <<tracer, fopen, buffered, written, abandoned>>
    /\ UNCHANGED <<vars, pvars, jvars, tvars, avars>>

\* start_trace: Popen starts strace, or raises and temp_fifo removes the
\* FIFO.
StartTrace(started) ==
    /\ dpc = "spawn"
    /\ IF started
       THEN tracer' = "opening" /\ dpc' = "open" /\ UNCHANGED fifo
       ELSE dpc' = "closed" /\ fifo' = FALSE /\ UNCHANGED tracer
    /\ UNCHANGED <<fopen, buffered, written, abandoned>>
    /\ UNCHANGED <<vars, pvars, jvars, tvars, avars>>

\* open(fifo) returns when strace has opened the FIFO for writing, and the
\* open of strace when the driver has opened it for reading.
OpenFifo ==
    /\ dpc = "open"
    /\ tracer = "opening"
    /\ dpc' = "read"
    /\ fopen' = TRUE
    /\ tracer' = "writing"
    /\ UNCHANGED <<fifo, buffered, written, abandoned>>
    /\ UNCHANGED <<vars, pvars, jvars, tvars, avars>>

\* strace ends: before it opened the FIFO when it could not start the
\* command, after the traced command ended otherwise.
TracerExits ==
    /\ tracer \in {"opening", "writing"}
    /\ tracer' = "gone"
    /\ UNCHANGED <<dpc, fifo, fopen, buffered, written, abandoned>>
    /\ UNCHANGED <<vars, pvars, jvars, tvars, avars>>

\* What the parser does with a line: it yields an event, yields nothing or
\* raises StraceParseError.
LineKinds == {"event", "nothing", "failure"}

\* The traced command makes a syscall and strace writes its line: into the
\* FIFO while the driver holds it open, and to its death by SIGPIPE once
\* the driver has closed it.
TracerWrites(line) ==
    /\ tracer = "writing"
    /\ written < MaxLines
    /\ IF fopen
       THEN /\ buffered' = Append(buffered, line)
            /\ written' = written + 1
            /\ UNCHANGED tracer
       ELSE /\ tracer' = "gone"
            /\ UNCHANGED <<buffered, written>>
    /\ UNCHANGED <<dpc, fifo, fopen, abandoned>>
    /\ UNCHANGED <<vars, pvars, jvars, tvars, avars>>

\* `for line in f` gets the next line and the parser yields an event for
\* it, yields nothing, or raises StraceParseError, which closes f and
\* enters Popen.__exit__.
ReadTrace ==
    /\ dpc = "read"
    /\ buffered # <<>>
    /\ buffered' = Tail(buffered)
    /\ CASE Head(buffered) = "event" -> dpc' = "yield" /\ UNCHANGED fopen
         [] Head(buffered) = "nothing" -> UNCHANGED <<dpc, fopen>>
         [] Head(buffered) = "failure" -> dpc' = "wait" /\ fopen' = FALSE
    /\ UNCHANGED <<tracer, fifo, written, abandoned>>
    /\ UNCHANGED <<vars, pvars, jvars, tvars, avars>>

\* The consumer asks for the next event.
Resume ==
    /\ dpc = "yield"
    /\ dpc' = "read"
    /\ UNCHANGED <<tracer, fifo, fopen, buffered, written, abandoned>>
    /\ UNCHANGED <<vars, pvars, jvars, tvars, avars>>

\* The consumer closes the iterator: GeneratorExit is raised at the yield,
\* `with open(fifo) as f` closes f and `with start_trace(...)` enters
\* Popen.__exit__, which waits for strace.
Abandon ==
    /\ dpc = "yield"
    /\ abandoned' = TRUE
    /\ fopen' = FALSE
    /\ dpc' = "wait"
    /\ UNCHANGED <<tracer, fifo, buffered, written>>
    /\ UNCHANGED <<vars, pvars, jvars, tvars, avars>>

\* `for line in f` finds the end of the file: nothing is buffered and no
\* writer holds the FIFO open.
EndOfFile ==
    /\ dpc = "read"
    /\ buffered = <<>>
    /\ tracer = "gone"
    /\ fopen' = FALSE
    /\ dpc' = "wait"
    /\ UNCHANGED <<tracer, fifo, buffered, written, abandoned>>
    /\ UNCHANGED <<vars, pvars, jvars, tvars, avars>>

\* Popen.__exit__: self.wait() returns when strace has ended; then
\* temp_fifo removes the FIFO and the generator is finished.
WaitReturns ==
    /\ dpc = "wait"
    /\ tracer = "gone"
    /\ dpc' = "closed"
    /\ fifo' = FALSE
    /\ UNCHANGED <<tracer, fopen, buffered, written, abandoned>>
    /\ UNCHANGED <<vars, pvars, jvars, tvars, avars>>

TraceNext ==
    \/ EnterFifo
    \/ \E started \in BOOLEAN : StartTrace(started)
    \/ OpenFifo
    \/ TracerExits
    \/ \E line \in LineKinds : TracerWrites(line)
    \/ ReadTrace
    \/ Resume
    \/ Abandon
    \/ EndOfFile
    \/ WaitReturns

TraceSpec == Init /\ [][TraceNext]_<<vars, pvars, xvars>>

\* The driver's code runs on when it can, and strace opens its output; when
\* the traced command makes a syscall or ends is up to the command.
TraceFairSpec ==
    /\ TraceSpec
    /\ WF_<<vars, pvars, xvars>>(OpenFifo)
    /\ WF_<<vars, pvars, xvars>>(ReadTrace)
    /\ WF_<<vars, pvars, xvars>>(EndOfFile)
    /\ WF_<<vars, pvars, xvars>>(WaitReturns)

\* ================================================================== json()
\* The code point of the one character each path component of the alphabet
\* consists of, and of "." and "/".
Ord(c) ==
    CASE c = "." -> 46
      [] c = "/" -> 47
      [] c = "d" -> 100
      [] c = "f" -> 102
      [] c = "r" -> 114
      [] c = "w" -> 119
      [] c = "x" -> 120

\* The characters of a path string or of str(Path): the components joined
\* by "/", after a leading "/" when absolute; the empty Path prints as ".".
RECURSIVE JoinSlash(_)
JoinSlash(parts) ==
    IF parts = <<>> THEN <<>>
    ELSE IF Len(parts) = 1 THEN <<Ord(parts[1])>>
    ELSE <<Ord(parts[1]), Ord("/")>> \o JoinSlash(Tail(parts))

Text(s) ==
    IF s.abs THEN <<Ord("/")>> \o JoinSlash(s.parts)
    ELSE IF s.parts = <<>> THEN <<Ord(".")>>
    ELSE JoinSlash(s.parts)

\* PurePath._cparts, the key PurePath.__lt__ compares: the root, then the
\* components.
cparts(path) ==
    (IF path.abs THEN <<Ord("/")>> ELSE <<>>)
        \o [k \in 1..Len(path.parts) |-> Ord(path.parts[k])]

\* a < b for two strings, or for two lists of one-character strings.
LexLess(a, b) ==
    \E k \in 1..(Len(a) + 1) :
        /\ k <= Len(b)
        /\ \A j \in 1..(k - 1) : a[j] = b[j]
        /\ (k = Len(a) + 1 \/ a[k] < b[k])

\* s < t for two tuples of a path set: (str, Path) or (str, Path, bool).
TupleLess(s, t) ==
    LET s1 == Text(s[1])
        t1 == Text(t[1])
        s2 == cparts(s[2])
        t2 == cparts(t[2])
    IN  \/ LexLess(s1, t1)
        \/ s1 = t1 /\ LexLess(s2, t2)
        \/ s1 = t1 /\ s2 = t2 /\ Len(s) = 3 /\ ~s[3] /\ t[3]

\* sorted(o) of a set o iterated in the order l.
RECURSIVE Insert(_, _)
Insert(x, l) ==
    IF l = <<>> THEN <<x>>
    ELSE IF TupleLess(x, Head(l)) THEN <<x>> \o l
    ELSE <<Head(l)>> \o Insert(x, Tail(l))

\* The set is emitted as it is iterated.
sorted_Unsorted(l) == l

RECURSIVE sorted(_)
sorted(l) == IF l = <<>> THEN <<>> ELSE Insert(Head(l), sorted(Tail(l)))

\* A tuple of a path set as json.dumps emits it: a list, the Path through
\* default() as str(o).
JsonEntry(t) ==
    IF Len(t) = 3 THEN <<Text(t[1]), Text(t[2]), t[3]>>
    ELSE <<Text(t[1]), Text(t[2])>>

JsonList(l) == [k \in 1..Len(l) |-> JsonEntry(l[k])]

JsonPath(o) == IF o = None THEN None ELSE Some(Text(o[1]))

\* Lines 80-94: json.dumps(self, sort_keys=True, default=default) of
\* recs[i].  The text is the tree of what dumps writes: one object per
\* ProcessTrace with every attribute as a key, the keys in sorted order
\* whatever order __dict__ holds them in.
RECURSIVE json(_, _, _)
json(recs, order, i) ==
    [pid |-> recs[i].pid,
     ppid |-> recs[i].ppid,
     cwd |-> Text(recs[i].cwd),
     executable |-> JsonPath(recs[i].executable),
     argv |-> recs[i].argv,
     env |-> recs[i].env,
     exit_code |-> recs[i].exit_code,
     paths_read |-> JsonList(sorted(order[i].paths_read)),
     paths_written |-> JsonList(sorted(order[i].paths_written)),
     paths_checked |-> JsonList(sorted(order[i].paths_checked)),
     children |-> [k \in 1..Len(recs[i].children) |->
                      json(recs, order, recs[i].children[k])]]

\* The events applied to the forests that are serialized.
JsonEvents ==
    {Ev(1, "read", s, FALSE, 0, <<>>, <<>>) : s \in ReadStrs}
    \cup {Ev(1, "check", s, b, 0, <<>>, <<>>) : s \in CheckStrs, b \in BOOLEAN}
    \cup {Ev(1, "fork", NoStr, FALSE, 2, <<>>, <<>>)}

\* The iteration order of a set after set.add: a tuple that is new comes
\* last, a tuple already in the set leaves the order alone.
Added(l, before, after) ==
    IF after = before THEN l ELSE Append(l, CHOOSE t \in after \ before : TRUE)

\* One event of a process applied to its record recs[i] of forest w: the
\* handler call of from_events line 46, and for a fork of a pid that has
\* no record yet lines 35-38.
JApply(w, i, e) ==
    /\ jn < MaxOps
    /\ i \in 1..Len(jobj[w].recs)
    /\ e.event = "fork" =>
           \A k \in 1..Len(jobj[w].recs) : jobj[w].recs[k].pid # Some(e.n)
    /\ LET recs == jobj[w].recs
           order == jobj[w].order
           p == Handle(recs[i], e).p
           o == [paths_read |->
                     Added(order[i].paths_read, recs[i].paths_read, p.paths_read),
                 paths_written |-> order[i].paths_written,
                 paths_checked |->
                     Added(order[i].paths_checked, recs[i].paths_checked,
                           p.paths_checked)]
       IN  IF e.event = "fork"
           THEN jobj' = [jobj EXCEPT ![w] =
                    [recs |-> Append([recs EXCEPT ![i] = AppendChild(p, Len(recs) + 1)],
                                     ForkChild(p, e.n)),
                     order |-> Append(order, NoOrder)]]
           ELSE jobj' = [jobj EXCEPT ![w] =
                    [recs |-> [recs EXCEPT ![i] = p],
                     order |-> [order EXCEPT ![i] = o]]]
    /\ jn' = jn + 1
    /\ UNCHANGED <<vars, pvars, tvars, dvars, avars>>

JsonNext == \E w \in {1, 2}, i \in 1..MaxOps, e \in JsonEvents : JApply(w, i, e)

JsonSpec == Init /\ [][JsonNext]_<<vars, pvars, xvars>>



\* ------------------------------------------------------------ vocabulary
Range(f) == {f[k] : k \in DOMAIN f}

Indices == 1..Len(records)

\* The records reachable from records[i] through children lists, i included.
RECURSIVE Subtree(_, _)
Subtree(recs, i) ==
    {i} \cup UNION {Subtree(recs, c) : c \in Range(recs[i].children)}

\* The stream so far is a prefix of a trace in which every process has one
\* life: at most one exec, one exit and nothing after it, one fork by a live
\* parent; only the fork line may come late.
StreamWellFormed == \A q \in Pids : life[q].st # "bad"

\* Every process the stream mentions was forked (or is the root) and exited.
StreamComplete == \A q \in Pids : life[q].st \in {"none", "dead"}

\* evs[1..k] applied to c one after the other, in the order of evs.
RECURSIVE AppliedInOrder(_, _, _)
AppliedInOrder(c, evs, k) ==
    IF k = 0 THEN c ELSE Handle(AppliedInOrder(c, evs, k - 1), evs[k]).p

\* ------------------------------------------------------------------- C1
C1_Attached ==
    \A rc \in raced :
        \E j \in Indices, i \in Indices :
            /\ records[j].pid = Some(rc[1])
            /\ records[i].pid = Some(rc[2])
            /\ records[i].ppid = Some(rc[1])
            /\ i \in Range(records[j].children)

C1_Completes ==
    pc = "failed" => (error.line \in {49, 50} /\ ~StreamComplete)

C1_DrainStep(e) ==
    LET i == running[e.pid]
        ci == Len(records) + 1
    IN  /\ Len(records') = ci
        /\ records'[ci] = AppliedInOrder(ForkChild(records[i], e.n),
                                         pending[e.n], Len(pending[e.n]))
        /\ pending'[e.n] = <<>>
        /\ running'[e.n] = ci

\* C1: in a well-formed stream where events of a child (possibly all of
\* them, its exit included) arrive before the parent's fork, from_events
\* still completes (it fails only at the end of a truncated stream), the
\* child's record is in its parent's children list, and the buffered events
\* are applied to it in arrival order before any later event of the child.
C1_BufferedChildCompletes ==
    /\ []((StreamWellFormed /\ raced # {}) => (C1_Completes /\ C1_Attached))
    /\ [][\A e \in Events :
            (e.event = "fork" /\ pending[e.n] # <<>> /\ pc' = "loop"
                /\ StreamWellFormed' /\ DispatchEvent(e))
            => C1_DrainStep(e)]_vars

\* ------------------------------------------------------------------- C2
\* C2: from_events returns a root only if running and pending are both
\* empty when the stream ends; otherwise it fails.
C2_ReturnsOnlyWhenDrained ==
    pc = "returned" =>
        /\ \A q \in Pids : running[q] = 0
        /\ \A q \in Pids : pending[q] = <<>>

C2_Witness == pc = "returned" /\ Len(records) >= 2 /\ drained # {}

\* ------------------------------------------------------------------- C3
\* C3: whenever from_events returns, every record reachable from the root
\* has exit_code set.
C3_ReturnedAllExited ==
    pc = "returned" =>
        \A i \in Subtree(records, 1) : records[i].exit_code # None

C3_Witness ==
    /\ pc = "returned"
    /\ \E i \in drained : i \in Subtree(records, 1) /\ i # 1

\* ------------------------------------------------------------------- C4
\* C4: after chdir(p) is applied to a record its cwd is p resolved against
\* the record's previous cwd.
C4_ChdirResolves ==
    [][\A e \in Events :
        (e.event = "chdir" /\ DispatchEvent(e))
        => records'[running[e.pid]].cwd
              = Join(records[running[e.pid]].cwd, e.path)]_vars

\* ------------------------------------------------------------------- C5
ExecPopulated(p) == p.executable # None /\ p.argv # None /\ p.env # None
ExecAbsent(p) == p.executable = None /\ p.argv = None /\ p.env = None

\* C5 as stated: every record of a returned forest has its exec fields
\* populated.
C5_AllExecPopulated ==
    pc = "returned" =>
        \A i \in Subtree(records, 1) : ExecPopulated(records[i])

\* C5 amended: in a returned forest a record has executable, argv and env
\* populated if an exec event was applied to it, and all three absent
\* otherwise.
C5_ExecPopulatedIffExecd ==
    pc = "returned" =>
        \A i \in Subtree(records, 1) :
            IF i \in execd THEN ExecPopulated(records[i])
            ELSE ExecAbsent(records[i])

C5_Witness ==
    /\ pc = "returned"
    /\ \E i \in Subtree(records, 1) : i \in execd
    /\ \E i \in Subtree(records, 1) : i \notin execd

\* ------------------------------------------------------------------- C6
\* C6: in a returned forest (the root cwd being absolute) the resolved form
\* of every member of paths_read and paths_written is absolute.
C6_ResolvedPathsAbsolute ==
    pc = "returned" =>
        \A i \in Subtree(records, 1) :
            \A en \in records[i].paths_read \cup records[i].paths_written :
                en[2].abs

\* ------------------------------------------------------------------- C7
ParentSlots(i) ==
    {jk \in Indices \X Indices :
        /\ jk[2] \in DOMAIN records[jk[1]].children
        /\ records[jk[1]].children[jk[2]] = i}

\* C7: in every state every non-root record is in the children list of
\* exactly one record, whose pid is its ppid; the root has no ppid.
C7_OneParent ==
    records # <<>> =>
        /\ records[1].ppid = None
        /\ \A i \in Indices \ {1} :
            /\ Cardinality(ParentSlots(i)) = 1
            /\ \A jk \in ParentSlots(i) : records[i].ppid = records[jk[1]].pid

C7_Witness ==
    \E i \in Indices : \E j \in Indices :
        /\ j # 1
        /\ i \in Range(records[j].children)
        /\ Len(records[1].children) >= 1

\* ------------------------------------------------------------------- C8
\* C8: no two records of a forest from_events returns share a pid, even when
\* a fork names a child pid that was forked and has exited earlier in the
\* stream.
C8_UniquePids ==
    pc = "returned" =>
        \A i \in Subtree(records, 1) : \A j \in Subtree(records, 1) :
            records[i].pid = records[j].pid => i = j

\* ------------------------------------------------------------------- C9
C9_ForkStep(e) ==
    LET pcwd == records[running[e.pid]].cwd
        evs == pending[e.n]
        ci == Len(records) + 1
        c == records'[ci]
        NoChdirBefore(k) == \A m \in 1..(k - 1) : evs[m].event # "chdir"
    IN  /\ Len(records') = ci
        /\ NoChdirBefore(Len(evs) + 1) => c.cwd = pcwd
        /\ \A k \in 1..Len(evs) :
              NoChdirBefore(k) =>
                 /\ evs[k].event = "read" =>
                      <<evs[k].path, Join(pcwd, evs[k].path)>> \in c.paths_read
                 /\ evs[k].event = "write" =>
                      <<evs[k].path, Join(pcwd, evs[k].path)>>
                          \in c.paths_written
                 /\ evs[k].event = "check" =>
                      <<evs[k].path, Join(pcwd, evs[k].path), evs[k].exists>>
                          \in c.paths_checked
                 /\ evs[k].event = "exec" =>
                      c.executable = Some(Join(pcwd, evs[k].path))

\* C9: a fork dispatched to a running parent gives the child the parent's
\* cwd of that moment, and the events buffered for the child are resolved
\* against that cwd (until the child itself changes directory).
C9_ChildInheritsCwd ==
    [][\A e \in Events :
        (e.event = "fork" /\ pc' = "loop" /\ DispatchEvent(e))
        => C9_ForkStep(e)]_vars

C9_Witness ==
    /\ nevents = 3
    /\ \E j \in Indices : \E i \in drained :
          /\ i \in Range(records[j].children)
          /\ records[j].cwd # Path(RootCwd)
          /\ records[i].cwd = records[j].cwd
          /\ \E en \in records[i].paths_read :
                en[2] = Join(records[j].cwd, en[1]) /\ ~en[1].abs

\* ------------------------------------------------------------------ C10
ExecutableEntries(S, cwd) ==
    {<<str(records[j].executable[1]), Join(cwd, records[j].executable[1])>> :
        j \in {k \in S : records[k].executable # None}}

\* C10: r.collapsed().paths_X is the union of paths_X over r and its
\* descendants, paths_read holding in addition the executable of each
\* descendant of r and nothing else.
C10_CollapsedIsSubtreeUnion ==
    (ret.of # 0 /\ ret.ok) =>
        LET S == Subtree(records, ret.of)
        IN  /\ ret.p.paths_written = UNION {records[j].paths_written : j \in S}
            /\ ret.p.paths_checked = UNION {records[j].paths_checked : j \in S}
            /\ ret.p.paths_read =
                  UNION {records[j].paths_read : j \in S}
                  \cup ExecutableEntries(S \ {ret.of}, ret.p.cwd)

\* ------------------------------------------------------------------ C11
\* C11: collapsing a record with no children is the identity: collapsed()
\* returns a record equal to the receiver in every field, paths_read,
\* paths_written and paths_checked included.
C11_LeafCollapseIsIdentity ==
    (ret.of # 0 /\ records[ret.of].children = <<>>) =>
        (ret.ok /\ ret.p = records[ret.of])

\* ------------------------------------------------------------------ C12
C12_SameIdentity ==
    ret.of # 0 =>
        /\ ret.ok
        /\ ret.p.pid = records[ret.of].pid
        /\ ret.p.ppid = records[ret.of].ppid
        /\ ret.p.cwd = records[ret.of].cwd
        /\ ret.p.executable = records[ret.of].executable
        /\ ret.p.argv = records[ret.of].argv
        /\ ret.p.env = records[ret.of].env
        /\ ret.p.exit_code = records[ret.of].exit_code
        /\ ret.p.children = <<>>

\* C12: collapsed() returns a fresh record with the receiver's pid, ppid,
\* cwd, executable, argv, env and exit_code and no children, and leaves the
\* receiver and every descendant as they were.
C12_CollapsedFreshSameIdentity ==
    /\ []C12_SameIdentity
    /\ [][\A i \in Indices : Collapse(i) => records' = records]_vars

\* ------------------------------------------------------------------ C14
\* e is an exec dispatched to a running record that has exec'd already.
SecondExec(e) ==
    /\ e.event = "exec"
    /\ pc = "loop"
    /\ running[e.pid] # 0
    /\ ExecPopulated(records[running[e.pid]])
    /\ DispatchEvent(e)

C15_SecondExecIsRead ==
    [][\A e \in Events :
        SecondExec(e) =>
            LET i == running[e.pid]
            IN  /\ pc' = "loop"
                /\ Len(records') = Len(records)
                /\ records'[i].executable = records[i].executable
                /\ records'[i].argv = records[i].argv
                /\ records'[i].env = records[i].env
                /\ records'[i].children = records[i].children
                /\ <<str(e.path), Join(records[i].cwd, e.path)>>
                       \in records'[i].paths_read]_vars

\* ------------------------------------------------------------------ C16
C16_CheckedRoot(e) ==
    [NewProcessTrace(Some(e.pid), None, RootCwd) EXCEPT
        !.paths_checked = {<<str(e.path), Join(Path(RootCwd), e.path), TRUE>>}]

\* The stream read so far is check(path, true), exit(1), both of the root.
C16_Stream ==
    /\ pc = "loop"
    /\ nevents = 2
    /\ life[1].st = "dead"
    /\ records[1].exit_code = Some(1)
    /\ \E en \in records[1].paths_checked : en[3]

\* C16: the first event of a process need not be exec: the stream
\* check(path, true), exit(1) of the root is accepted and returns a root
\* with executable, argv and env absent, the check in paths_checked and
\* exit_code 1.
C16_FirstEventNeedNotBeExec ==
    /\ [][\A e \in Events :
            (e.event = "check" /\ e.exists /\ FirstEvent(e)) =>
                /\ pc' = "loop"
                /\ records' = <<C16_CheckedRoot(e)>>
                /\ running'[e.pid] = 1]_vars
    /\ [][\A e \in Events :
            (e.event = "exit" /\ e.n = 1 /\ nevents = 1 /\ pc = "loop"
                /\ (\E en \in records[1].paths_checked : en[3])
                /\ DispatchEvent(e)) =>
                /\ pc' = "loop"
                /\ records' = <<[records[1] EXCEPT !.exit_code = Some(1)]>>
                /\ \A q \in Pids : running'[q] = 0]_vars
    /\ [][(C16_Stream /\ EndOfStream) =>
            /\ pc' = "returned"
            /\ ExecAbsent(records'[1])
            /\ records'[1].exit_code = Some(1)
            /\ \E en \in records'[1].paths_checked : en[3]]_vars

C16_Witness ==
    /\ pc = "returned"
    /\ nevents = 2
    /\ Len(records) = 1
    /\ ExecAbsent(records[1])
    /\ records[1].exit_code = Some(1)
    /\ \E en \in records[1].paths_checked : en[3]

\* ------------------------------------------------------------------ C13
\* The pid of a syscall of the input.
PidOfSyscall(sc) == int(<<sc.pid>>)

\* What the unsplit line of sc does to a parser with nothing pending.
Unsplit(sc) == ParseLine(<<>>, FullLine(sc))

\* C13: a syscall line of pid P cut at any point k of its argument list:
\* the unfinished line, read while nothing is pending for P, yields no event,
\* does not fail and stores the name and the first k tokens of the
\* arguments for P; the resumed line, read after any lines of other pids,
\* yields exactly the events of the unsplit line, fails exactly when the
\* unsplit line fails, and leaves P with no pending entry.
C13_SplitSameAsUnsplit ==
    /\ [][\A sc \in SplitSyscalls : \A k \in 0..Len(sc.args) :
            (PidOfSyscall(sc) \notin DOMAIN ppending /\ ReadFirstHalf(sc, k)) =>
                /\ ppc' = "parsing"
                /\ out' = out
                /\ DOMAIN ppending' = DOMAIN ppending \cup {PidOfSyscall(sc)}
                /\ ppending'[PidOfSyscall(sc)] = <<(<<sc.func>>), Take(sc.args, k)>>
                /\ \A q \in DOMAIN ppending : ppending'[q] = ppending[q]]_pvars
    /\ [][\A sc \in SplitSyscalls : \A k \in 0..Len(sc.args) :
            (origin[PidOfSyscall(sc)] = Some(<<sc, k>>) /\ ReadSecondHalf(sc, k)) =>
                /\ out' = out \o Unsplit(sc).events
                /\ (ppc' = "parsing") = Unsplit(sc).ok
                /\ PidOfSyscall(sc) \notin DOMAIN ppending']_pvars

\* ------------------------------------------------------------------ C17
\* C17: a signal-delivery line, whatever signal it names, yields no event
\* and is not fatal: parsing goes on with the next line.
C17_SignalNeverFatal ==
    [][\A line \in SignalLines :
          ReadOther(line) =>
              /\ ppc' = "parsing"
              /\ out' = out
              /\ ppending' = ppending]_pvars

\* ------------------------------------------------------------------ C18
\* C18: a line of none of the five shapes yields no event, does not abort
\* parsing and leaves the pending map as it was, so that the lines after it
\* are parsed as if it were absent.
C18_UnrecognizedSkipped ==
    [][\A line \in Unrecognized :
          ReadOther(line) => UNCHANGED <<ppc, perror, out, ppending>>]_pvars

\* An unrecognized line was read last, after lines that yielded an event and
\* left a syscall pending, and parsing goes on.
C18_Witness ==
    /\ ppc = "parsing"
    /\ lastline \in {Some(line) : line \in Unrecognized}
    /\ out # <<>>
    /\ ppending # <<>>

\* ------------------------------------------------------------------ C19
\* The syscalls of the input whose name has no handler.
NoHandler == {sc \in Syscalls : sc.func \notin HandlerNames}

\* C19: a complete line, or a resumed line completing a pending first half,
\* of a syscall whose name has no handler is a parse failure that carries
\* that input line, and no event is emitted for it.
C19_UnknownSyscallFails ==
    /\ [][\A sc \in NoHandler :
            ReadComplete(sc) =>
                /\ ppc' = "failed"
                /\ perror' = Some(FullLine(sc))
                /\ out' = out]_pvars
    /\ [][\A sc \in NoHandler \cap SplitSyscalls : \A k \in 0..Len(sc.args) :
            (origin[PidOfSyscall(sc)] = Some(<<sc, k>>) /\ ReadSecondHalf(sc, k)) =>
                /\ ppc' = "failed"
                /\ perror' = Some(SecondHalf(sc, k))
                /\ out' = out]_pvars

\* Parsing failed at the resumed line of a syscall without handler, after a
\* line that yielded an event.
C19_Witness ==
    /\ ppc = "failed"
    /\ out # <<>>
    /\ \E sc \in NoHandler \cap SplitSyscalls : \E k \in 1..Len(sc.args) :
          perror = Some(SecondHalf(sc, k))

\* ------------------------------------------------------------------ C20
HasEquals(entry) == \E i \in 1..Len(entry) : entry[i] = "="

\* The text of an environment entry before its first '=' and after it.
KeyLen(entry) ==
    CHOOSE n \in 0..(Len(entry) - 1) :
        entry[n + 1] = "=" /\ \A j \in 1..n : entry[j] # "="
KeyOf(entry) == Take(entry, KeyLen(entry))
ValueOf(entry) == Drop(entry, KeyLen(entry) + 1)

\* The environment the entries envs spell: each key with the value of the
\* last entry that has it.
EnvOf(envs) ==
    [key \in {KeyOf(envs[i]) : i \in 1..Len(envs)} |->
        ValueOf(envs[CHOOSE i \in 1..Len(envs) :
                        /\ KeyOf(envs[i]) = key
                        /\ \A j \in (i + 1)..Len(envs) : KeyOf(envs[j]) # key])]

ExecEvent(sc) ==
    TraceEvent(PidOfSyscall(sc), "exec",
               <<Some(sc.path), [i \in 1..Len(sc.argv) |-> Some(sc.argv[i])],
                 EnvOf(sc.envs)>>)

CheckEvent(sc, exists) ==
    TraceEvent(PidOfSyscall(sc), "check", <<Some(sc.path), exists>>)

\* The step yields exactly the event ev and parsing goes on.
YieldsOnly(ev) == ppc' = "parsing" /\ out' = Append(out, ev)

\* The step is a parse failure without event.
FailsWithoutEvent == ppc' = "failed" /\ out' = out

C26_EmptyStreamIsParseFailure ==
    [][EmptyStream =>
          /\ pc' = "failed"
          /\ records' = <<>>
          /\ error'.type = "StraceParseError"]_vars

\* ------------------------------------------------------------------ C28
\* The events buffered for pid q include its exit.
ExitBuffered(q) == \E k \in 1..Len(pending[q]) : pending[q][k].event = "exit"

\* C28: a step that applies an exit event of pid x to x's record, the exit
\* being dispatched from the stream or drained from the buffer when x is
\* forked, leaves x out of the running map and removes no other pid from it.
C28_ExitRemovesOnlyItsPid ==
    /\ [][\A e \in Events :
            (e.event = "exit" /\ DispatchEvent(e) /\ pc' = "loop") =>
                running' = [running EXCEPT ![e.pid] = 0]]_vars
    /\ [][\A e \in Events :
            (e.event = "fork" /\ ExitBuffered(e.n) /\ DispatchEvent(e)
                /\ pc' = "loop") =>
                /\ running'[e.n] = 0
                /\ \A q \in Pids \ {e.n} : running'[q] = running[q]]_vars

\* ------------------------------------------------------------------ C29
\* records' holds at index ci a record of pid c whose parent is the record
\* at index i.
ChildCreated(i, ci, c) ==
    /\ ci \in 1..Len(records')
    /\ records'[ci].pid = Some(c)
    /\ records'[ci].ppid = records'[i].pid
    /\ ci \in Range(records'[i].children)

\* C29: every fork(c) applied to a record p creates a record for c with
\* ppid = p.pid, appends it to p.children, adds it to running and drains
\* the events pending for c: a fork dispatched from the stream, a fork that
\* is the first event of the stream, and a fork drained from the buffer of
\* a child.
C29_EveryForkCreatesChild ==
    /\ [][\A e \in Events :
            (e.event = "fork" /\ DispatchEvent(e) /\ pc' = "loop") =>
                /\ ChildCreated(running[e.pid], Len(records) + 1, e.n)
                /\ pending'[e.n] = <<>>
                /\ ~ExitBuffered(e.n) => running'[e.n] = Len(records) + 1
                /\ \A k \in 1..Len(pending[e.n]) :
                      pending[e.n][k].event = "fork" =>
                          \E j \in 1..Len(records') :
                              ChildCreated(Len(records) + 1, j,
                                           pending[e.n][k].n)]_vars
    /\ [][\A e \in Events :
            (e.event = "fork" /\ FirstEvent(e)) =>
                /\ ChildCreated(1, 2, e.n)
                /\ running'[e.n] = 2]_vars

\* ------------------------------------------------------------------ C30
\* C30: once the exit_code of a record is set, no later step changes the
\* record: exit_code, path sets, cwd, exec fields and children stay.
C30_ExitedRecordFrozen ==
    [][\A i \in Indices :
          records[i].exit_code # None =>
              /\ i \in 1..Len(records')
              /\ records'[i] = records[i]]_vars

Json(w) == json(jobj[w].recs, jobj[w].order, 1)

\* The path lists json() emits for forest w, one per record and path set.
Emitted(w) ==
    {sorted(jobj[w].order[i].paths_read) : i \in 1..Len(jobj[w].recs)}
    \cup {sorted(jobj[w].order[i].paths_checked) : i \in 1..Len(jobj[w].recs)}

Increasing(l) == \A j, k \in 1..Len(l) : j < k => TupleLess(l[j], l[k])

\* C27: json() is canonical: two forests with equal fields, equal path sets
\* (whatever the order the paths were inserted in) and equal children
\* serialize to the same text; every set is emitted in increasing order of
\* one total order, its paths as strings, and the children are nested
\* objects in fork order.
C27_JsonCanonical ==
    /\ jobj[1].recs = jobj[2].recs => Json(1) = Json(2)
    /\ \A w \in {1, 2} :
           /\ \A l \in Emitted(w) : Increasing(l)
           /\ \A i \in 1..Len(jobj[w].recs) :
                  /\ Range(sorted(jobj[w].order[i].paths_read))
                         = jobj[w].recs[i].paths_read
                  /\ Range(sorted(jobj[w].order[i].paths_checked))
                         = jobj[w].recs[i].paths_checked
           /\ \A k \in 1..Len(jobj[w].recs[1].children) :
                  Json(w).children[k].pid
                      = jobj[w].recs[jobj[w].recs[1].children[k]].pid
           /\ Json(w).cwd = Text(jobj[w].recs[1].cwd)

C27_Witness ==
    /\ jobj[1].recs = jobj[2].recs
    /\ jobj[1].order # jobj[2].order
    /\ Cardinality(jobj[1].recs[1].paths_read) >= 2
    /\ jobj[1].recs[1].children # <<>>

\* ------------------------------------------------------------ C21 .. C23
\* The event of kind k on the path of the call sc.
PathEvent(sc, k) == TraceEvent(PidOfSyscall(sc), k, <<Some(sc.path)>>)

\* The call returned a file descriptor: a number that is not negative.
ReturnedFd(sc) == sc.tail \in {Ret("0"), Ret("3")}

\* C21: an open or openat line yields exactly one event: when the call
\* succeeded read(path) if O_RDONLY is among its flags, otherwise
\* write(path) if O_WRONLY or O_RDWR is; when it failed check(path, false)
\* if the errno is ENOENT and O_RDONLY is among the flags; every other
\* combination is a parse failure, and so is an openat whose fd is not
\* AT_FDCWD.
C21_OpenOneEvent ==
    [][\A sc \in OpenCalls :
          ReadComplete(sc) =>
              IF sc.func = "openat" /\ sc.fd # AtFdcwd THEN FailsWithoutEvent
              ELSE IF ReturnedFd(sc) /\ "O_RDONLY" \in Range(sc.flags)
              THEN YieldsOnly(PathEvent(sc, "read"))
              ELSE IF ReturnedFd(sc) /\ {"O_WRONLY", "O_RDWR"} \cap Range(sc.flags) # {}
              THEN YieldsOnly(PathEvent(sc, "write"))
              ELSE IF sc.tail = RetErrno("ENOENT") /\ "O_RDONLY" \in Range(sc.flags)
              THEN YieldsOnly(CheckEvent(sc, FALSE))
              ELSE FailsWithoutEvent]_pvars

\* C22: a readlinkat line is read as a readlink line is: a call that
\* succeeded yields read(path), one that failed with ENOENT check(path,
\* false), one that failed with EINVAL check(path, true), under either name.
C22_ReadlinkatLikeReadlink ==
    [][\A sc \in ReadlinkCalls :
          ReadComplete(sc) =>
              /\ (sc.tail = Ret("3") /\ EndsWith(sc.args, Filled))
                     => YieldsOnly(PathEvent(sc, "read"))
              /\ (sc.tail = RetErrno("ENOENT") /\ EndsWith(sc.args, Unfilled))
                     => YieldsOnly(CheckEvent(sc, FALSE))
              /\ (sc.tail = RetErrno("EINVAL") /\ EndsWith(sc.args, Unfilled))
                     => YieldsOnly(CheckEvent(sc, TRUE))]_pvars

\* C23: every clone line that returned a pid and has SIGCHLD among its
\* flags, whatever the other flags, yields exactly fork(ret) for the
\* calling pid, and so does every vfork line that returned a pid.
C23_CloneWithSigchldForks ==
    [][\A sc \in ForkCalls :
          (/\ ReadComplete(sc)
           /\ sc.tail = Ret("2")
           /\ sc.func = "clone" => "SIGCHLD" \in Range(sc.flags)) =>
              YieldsOnly(TraceEvent(PidOfSyscall(sc), "fork", <<2>>))]_pvars

C25_AbandonEndsTracer ==
    abandoned ~> (tracer = "gone" /\ ~fopen /\ ~fifo /\ dpc = "closed")

\* ------------------------------------------------------------------ C31
\* The record event e is applied to and its cwd before the step: the first
\* event of the stream is applied to the root as __init__ made it.
C31_Before(e) ==
    IF pc = "start" THEN NewProcessTrace(Some(e.pid), None, RootCwd)
    ELSE records[running[e.pid]]

C31_After(e) == IF pc = "start" THEN records'[1] ELSE records'[running[e.pid]]

C31_Sets(p) == <<p.paths_read, p.paths_written, p.paths_checked>>

C31_Step(e) ==
    LET b == C31_Before(e)
        a == C31_After(e)
        pair == <<e.path, Join(b.cwd, e.path)>>
    IN  CASE e.event = "read" ->
                 C31_Sets(a) = <<b.paths_read \cup {pair}, b.paths_written,
                                 b.paths_checked>>
          [] e.event = "write" ->
                 C31_Sets(a) = <<b.paths_read, b.paths_written \cup {pair},
                                 b.paths_checked>>
          [] e.event = "check" ->
                 C31_Sets(a) =
                     <<b.paths_read, b.paths_written,
                       b.paths_checked \cup {<<pair[1], pair[2], e.exists>>}>>
          [] OTHER -> C31_Sets(a) = C31_Sets(b)

\* C31: read, write and check add the entry (p as recorded, cwd/p) made from
\* the record's cwd of that moment and leave every other entry alone, so
\* entries that differ only in the recorded form stay side by side; chdir
\* (and exit) change no entry of any of the three sets.
C31_EntriesKeptAsRecorded ==
    [][\A e \in PathEvents :
        ((FirstEvent(e) \/ DispatchEvent(e)) /\ pc' # "failed")
        => C31_Step(e)]_vars

\* Two entries of one resolved path, read before a chdir that would resolve
\* them differently.
C31_Witness ==
    \E i \in Indices :
        \E e1 \in records[i].paths_read, e2 \in records[i].paths_read :
            /\ e1 # e2
            /\ e1[2] = e2[2]
            /\ ~e1[1].abs
            /\ Join(records[i].cwd, e1[1]) # e1[2]

\* ------------------------------------------------------------------ C32
\* The line just read is the first half of sc cut at k and the classifier
\* takes it for an unfinished syscall (no earlier pattern matches it).
C32_ReadUnfinished(sc, k) ==
    /\ ReadFirstHalf(sc, k)
    /\ ~MatchFull(FirstHalf(sc, k)).m

C32_Step(sc, k) ==
    LET p == int(<<sc.pid>>)
    IN  /\ out' = out
        /\ IF p \in DOMAIN ppending
           THEN /\ ppc' = "failed"
                /\ perror' = Some(FirstHalf(sc, k))
                /\ ppending' = ppending
           ELSE /\ ppc' = "parsing"
                /\ DOMAIN ppending' = DOMAIN ppending \cup {p}
                /\ ppending'[p] = <<(<<sc.func>>), Take(sc.args, k)>>
                /\ \A q \in DOMAIN ppending : ppending'[q] = ppending[q]

\* C32: an unfinished line of a PID that has a pending syscall is a parse
\* failure; an accepted one yields no event and records the name and the
\* partial arguments under its PID, the entries of other PIDs staying as
\* they are.
C32_OnePendingPerPid ==
    [][\A sc \in SplitSyscalls : \A k \in 0..Len(sc.args) :
          C32_ReadUnfinished(sc, k) => C32_Step(sc, k)]_pvars

\* Two PIDs have a pending syscall and a further unfinished line of one of
\* them has ended the parsing.
C32_Witness ==
    /\ ppc = "failed"
    /\ DOMAIN ppending = {1, 2}
    /\ out = <<>>
    /\ lastline # None
    /\ MatchUnfinished(lastline[1]).m
    /\ ~MatchFull(lastline[1]).m
    /\ perror = lastline

\* ------------------------------------------------------------------ C33
\* The PIDs whose entry of the pending map a step adds, removes or changes.
C33_Added == DOMAIN ppending' \ DOMAIN ppending
C33_Removed == DOMAIN ppending \ DOMAIN ppending'
C33_Changed ==
    {q \in DOMAIN ppending \cap DOMAIN ppending' : ppending'[q] # ppending[q]}

C33_Step(line) ==
    LET shape == LineShape(line).shape
        p == PidOfLine(line)
    IN  /\ shape \in {"full", "exit", "signal", "error"}
              => ppending' = ppending
        /\ C33_Changed = {}
        /\ C33_Added # {} => (shape = "unfinished" /\ C33_Added = {p})
        /\ C33_Removed # {} => (shape = "resumed" /\ C33_Removed = {p})

\* C33: a complete syscall line and an exit line leave the pending map as
\* it is for every PID; an entry is added by an unfinished line only and
\* removed by a resumed line only, which removes the entry of its own PID
\* and no other.
C33_PendingTransitions ==
    [][nlines' = nlines + 1 => C33_Step(lastline'[1])]_pvars

\* A resumed line of PID 1 has emitted its event and removed the entry of
\* PID 1 while the syscall of PID 2 is still pending.
C33_Witness ==
    /\ ppc = "parsing"
    /\ out # <<>>
    /\ DOMAIN ppending = {2}
    /\ lastline # None
    /\ MatchResumed(lastline[1]).m
    /\ PidOfLine(lastline[1]) = 1

\* ------------------------------------------------------------------ C34
\* The second half of sc is read while its PID has no pending syscall or
\* one of another name.
C34_Unmatched(sc, k) ==
    /\ ReadSecondHalf(sc, k)
    /\ \/ int(<<sc.pid>>) \notin DOMAIN ppending
       \/ ppending[int(<<sc.pid>>)][1] # <<sc.func>>

\* C34: a resumed line of a PID without pending syscall, or naming another
\* syscall than the pending one, is a parse failure carrying that line and
\* emits no event, whatever other PIDs have pending.
C34_UnmatchedResumedFails ==
    [][\A sc \in SplitSyscalls : \A k \in 0..Len(sc.args) :
          C34_Unmatched(sc, k)
          => /\ ppc' = "failed"
             /\ perror' = Some(SecondHalf(sc, k))
             /\ out' = out
             /\ ppending' = ppending]_pvars

\* The second of two lines is a resumed line of PID 1 and has failed, the
\* first having left a syscall of PID 2 pending.
C34_Witness ==
    /\ ppc = "failed"
    /\ nlines = 2
    /\ out = <<>>
    /\ DOMAIN ppending = {2}
    /\ lastline # None
    /\ MatchResumed(lastline[1]).m
    /\ PidOfLine(lastline[1]) = 1

\* ------------------------------------------------------------------ C35
\* The tokens of spec that yield an item.
C35_Yielding(spec) == SelectSeq(spec, LAMBDA t : t \notin {",", "*"})

\* The tokens of spec behind its "*".
C35_Tail(spec) == Drop(spec, Find(spec, "*", 1))

\* C35: an argument list with text left behind the last token of the schema
\* is refused; a list that ends where the optional tail begins is accepted
\* and every token of the tail that yields an item yields the absent value.
C35_SchemaConsumesAll ==
    /\ parsed.kind = "extra" => ~parsed.r.ok
    /\ parsed.kind = "cut" =>
          /\ parsed.r.ok
          /\ Len(parsed.r.val) = Len(C35_Yielding(parsed.spec))
          /\ \A k \in 1..Len(C35_Yielding(C35_Tail(parsed.spec))) :
                parsed.r.val[Len(parsed.r.val) + 1 - k] = None

\* An open argument list with its mode and one more argument behind it was
\* refused by the assertion that ends _parse_args.
C35_Witness ==
    /\ parsed.kind = "extra"
    /\ Find(parsed.spec, "*", 1) # 0
    /\ ~parsed.r.ok
    /\ parsed.r.exc = "AssertionError"

\* ------------------------------------------------------------------ C36
\* C36: the line that raises a parse failure adds no event to the output,
\* and once a failure was raised the output and the failure stay as they
\* are.
C36_FailureAtomicAndFinal ==
    [][/\ (ppc = "parsing" /\ ppc' = "failed") => out' = out
       /\ perror # None => (out' = out /\ ppc' = "failed" /\ perror' = perror)
      ]_pvars

\* After lines that gave events, a rename whose two paths were read well
\* but which did not return 0 has ended the parsing.
C36_Witness ==
    /\ ppc = "failed"
    /\ out # <<>>
    /\ perror = lastline
    /\ MatchFull(lastline[1]).m
    /\ MatchFull(lastline[1]).func = <<"rename">>
    /\ parse_args(<<"s", ",", "s">>, MatchFull(lastline[1]).args).ok

\* ------------------------------------------------------------------ C37
\* C37: the cwd of a record changes only in the step that dispatches a
\* chdir of the stream to that record: a chdir of the parent after the fork
\* leaves the child's cwd, and a chdir of a child leaves the cwd of its
\* parent and of every other record.
C37_ChdirChangesOneRecord ==
    [][\A i \in 1..Len(records) :
          records'[i].cwd # records[i].cwd
          => \E e \in Events :
                e.event = "chdir" /\ running[e.pid] = i /\ DispatchEvent(e)]_vars

\* The child has the cwd its parent had at the fork and the parent has
\* changed directory since.
C37_Witness ==
    /\ Len(records) = 2
    /\ 2 \in Range(records[1].children)
    /\ records[2].cwd = Path(RootCwd)
    /\ records[1].cwd # Path(RootCwd)

\* ------------------------------------------------------------------ C38
\* The entries of a collapsed paths_read that no read of the subtree made.
C38_ExecutableEntries(i) ==
    ret.p.paths_read
        \ UNION {records[j].paths_read : j \in Subtree(records, i)}

\* C38: collapsed() succeeds on every record of a returned forest, also
\* when a process of the subtree never exec'd, and then adds no executable
\* entry for that process: with no process of the subtree exec'd it adds
\* none at all.
C38_CollapseSucceedsWithoutExec ==
    ret.of # 0 =>
        /\ ret.ok
        /\ (\A j \in Subtree(records, ret.of) : records[j].executable = None)
              => C38_ExecutableEntries(ret.of) = {}

\* ------------------------------------------------------------------ C39
\* C39: once the tracer has ended the driver does not stay blocked in its
\* open or read of the FIFO: the iterator ends, or stands at a yield with
\* an event for its consumer.
C39_DriverEndsAfterTracer ==
    tracer = "gone" ~> (dpc = "closed" \/ dpc = "yield")
====
